---- MODULE Spec2Model ----
(***************************************************************************)
(* SynapseKernel: kernel heap (heap.c, kheap.c), task ring (task.c),       *)
(* process table (process.c, process_memory.c), scheduler (scheduler.c)    *)
(* and the PROCESS_EXIT / PROCESS_MALLOC / PROCESS_FREE syscalls.          *)
(***************************************************************************)
EXTENDS Integers, Sequences, FiniteSets, TLC

(***************************************************************************)
(* Program constants                                                       *)
(***************************************************************************)
KERNEL_HEAP_BLOCK_SIZE == 4096
HEAP_BLOCK_TABLE_ENTRY_FREE == 0
HEAP_BLOCK_TABLE_ENTRY_TAKEN == 1
HEAP_BLOCK_HAS_NEXT == 128
HEAP_BLOCK_IS_FIRST == 64
ENOMEM == 3
EINVARG == 2
EFAULT == 8
ENOMAP == 5
BOOT_INFO_MAGIC == 1112493908
MIN_HEAP_SIZE == 4194304
MAX_HEAP_SIZE == 268435456
ENOTASK == 11
EPMAX == 12
ESYSCALL == 14
ENOENT == 15
ENOTREADY == 7
EINUSE == 10
EINVSYSCALL == 13
EOK == 0
NULL == 0

SYNAPSE_MAX_PROCESSES == 64
SYSCALL_PROCESS_EXIT == 0
SYSCALL_PROCESS_MALLOC == 1
SYSCALL_PROCESS_FREE == 2
SYSCALL_PROCESS_GET_ARGS == 3
SYSCALL_PRINT_CHAR == 4
SYSCALL_PRINT_STRING == 5
SYSCALL_MAX == 6
\* a NULL entry of a table of function pointers
NoHandler == "NULL"
MAX_INTERRUPT_HANDLERS == 128
TIMER_IRQ == 30
\* iar & 0x3FF is iar % 1024
GICC_IAR_ID_MOD == 1024
\* the ids from 1020 are not interrupts
GIC_SPECIAL_ID == 1020
SCHEDULER_TICKS_MS == 10
PGD_SHIFT == 39
PUD_SHIFT == 30
PMD_SHIFT == 21
PTE_SHIFT == 12
\* 0x1FF
PGD_MASK == 511
PUD_MASK == 511
PMD_MASK == 511
PTE_MASK == 511
PTE_TYPE_FAULT == 0
PTE_TYPE_TABLE == 3
PTE_TYPE_PAGE == 3
PTE_TYPE_BLOCK == 1
EINVAL == 6
PAGE_SIZE == 4096
NUM_ENTRIES_PER_TABLE == 512
\* level3_tables[4]
NUM_LEVEL3_TABLES == 4
\* 0x200000, the size of a level 2 block
LARGE_PAGE_SIZE == 2097152
PAGES_PER_BLOCK == LARGE_PAGE_SIZE \div PAGE_SIZE
\* 0x40000000 bytes
PAGES_PER_GB == 262144
\* the physical layout, in pages of PAGE_SIZE bytes
PHYS_RAM_START == 262144
PHYS_RAM_SIZE == 524288
PHYS_DEVICE_START == 0
PHYS_DEVICE_SIZE == 262144
MAP_READ == 1
MAP_WRITE == 2
MAP_EXEC == 4
MAP_DEVICE == 8
MAP_CACHE_WB == 16
MAP_CACHE_WT == 32
MAP_CACHE_NC == 64
MAP_USER == 128
MAP_SHARED == 256
MEMORY_ATTR_DEVICE_nGnRnE == 0
MEMORY_ATTR_DEVICE_nGnRE == 1
MEMORY_ATTR_DEVICE_GRE == 2
MEMORY_ATTR_NORMAL_NC == 3
MEMORY_ATTR_NORMAL_WT == 4
MEMORY_ATTR_NORMAL_WB == 5
PTE_ATTR_SH_INNER == 3
PTE_ATTR_AP_RW_EL1 == 0
PTE_ATTR_AP_RW_ALL == 1
PTE_ATTR_AP_RO_EL1 == 2
PTE_ATTR_AP_RO_ALL == 3
AI_MEMORY_MIN_BLOCK_SIZE == 64
AI_MEMORY_MAX_BLOCKS == 4096
REQUESTED_POOL_SIZE == 1048576
AI_INIT_BLOCK_SIZE == 65536
TENSOR_TYPE_INT8 == 0
TENSOR_TYPE_INT16 == 1
TENSOR_TYPE_INT32 == 2
TENSOR_TYPE_FLOAT16 == 3
TENSOR_TYPE_FLOAT32 == 4
TENSOR_TYPE_COUNT == 5
TENSOR_LAYOUT_ROW_MAJOR == 0
TENSOR_LAYOUT_COLUMN_MAJOR == 1
TENSOR_LAYOUT_NCHW == 2
TENSOR_LAYOUT_NHWC == 3
TENSOR_MEM_ZEROED == 1
TENSOR_MEM_ALIGNED == 2
SIZEOF_TENSOR == (5 * 8) + (3 * 4) + 4
SYNAPSE_MAX_PROCESSES_ALLOCATIONS == 128
SYNAPSE_PROCESS_STACK_SIZE == 128 * 1024
TASK_STATE_NEW == 0
TASK_STATE_READY == 1
TASK_STATE_RUNNING == 2
TASK_STATE_BLOCKED == 3
TASK_STATE_FINISHED == 4
TASK_PRIORITY_LOW == 0
TASK_PRIORITY_NORMAL == 1
TASK_PRIORITY_HIGH == 2
\* sizeof(struct task), sizeof(struct process) on AArch64 (LP64)
SIZEOF_TASK == 8 + (35 * 8) + (3 * 8)
SIZEOF_PROCESS == 72 + 8 + (SYNAPSE_MAX_PROCESSES_ALLOCATIONS * 16) + (3 * 8) + 16

\* A byte count is kept as [q, r] with value q * KERNEL_HEAP_BLOCK_SIZE + r and
\* 0 <= r < KERNEL_HEAP_BLOCK_SIZE; a uint32_t holds q modulo 2^32 / 4096
UINT32_BLOCKS == 1024 * 1024
UINT16_MOD == 65536

Bytes(n) == [q |-> n \div KERNEL_HEAP_BLOCK_SIZE, r |-> n % KERNEL_HEAP_BLOCK_SIZE]

(***************************************************************************)
(* Bounds of the model                                                     *)
(***************************************************************************)
\* number of blocks of the heap explored by HeapSpec (table->total)
HeapTotal == 3
\* number of pointers the heap client holds at once
MaxAllocs == 2

\* number of blocks of the kernel heap under the process model (table->total)
KHeapTotal == 76
\* number of tasks ever created (next_task_id stays below it)
MaxTasks == 2
\* number of PROCESS_MALLOC allocations a process holds at once
MaxUserAllocs == 1

\* largest argc given to process_set_arguments
MaxArgc == 1

\* number of blocks of the kernel heap under the tensor model: those that
\* ai_memory_init takes (273) and seven more
AiHeapTotal == 280
\* number of tensors and views alive at once
MaxTensors == 2
\* number of regions ever handed out by the tensor pool, and of regions ever
\* given back to it (allocations and deallocations stay below it)
MaxAiAllocations == 3

\* tasks in the ring at once, and task_new calls that succeed in a run
MaxRingTasks == 3
MaxTaskIds == 5

\* largest argc given to process_set_arguments on a heap short of memory
MaxArgvLen == 2
\* the calls of mmu_map and mmu_unmap whose loop takes more turns are left out
MaxLoopTurns == 4

\* heap->saddr: a block-aligned, non-null start address
HeapBase == 256 * KERNEL_HEAP_BLOCK_SIZE

VARIABLES
  heap_total,        \* kernel_heap_table.total
  entries,           \* kernel_heap_table.entries[0 .. total-1]
  heap_oob,          \* indices >= total that heap_mark_blocks_taken wrote to
  held,              \* heap client: the pointers returned by kmalloc and not yet freed
  hlast,             \* heap client: the name of its last call
  tasks,             \* the struct task objects, by address
  task_list_head,    \* task.c: task_list_head
  current_task,      \* task.c: current_task
  next_task_id,      \* task.c: next_task_id
  procs,             \* the struct process objects, by address
  process_table,     \* process.c: process_table[SYNAPSE_MAX_PROCESSES]
  current_process,   \* process.c: current_process
  scheduler_running, \* scheduler.c: scheduler_running
  mem_corrupt,       \* a store or a read went outside the object it was meant for
  starve,            \* when counting: per pid, the timer ticks in a row that did
                     \* not switch to its main task
  kmalloc_frame      \* per task inside (or back from) a kmalloc call that a
                     \* timer tick may interrupt: the locals of
                     \* heap_malloc_blocks held in its registers and stack
  ,terminate_frame   \* active: the running code is inside process_terminate,
                     \* between task_free(process->task) and
                     \* process_table[id] = NULL; id, process: its locals
  ,syscall_table     \* syscall.c: syscall_table[SYSCALL_MAX]
  ,syscall_result    \* the last call of syscall_handler: its number, the
                     \* handler it called and the value it returned
  ,free_result       \* the last call of process_free: its arguments and the
                     \* value it returned
  ,interrupt_initialized \* interrupt.c: interrupt_initialized
  ,interrupt_handlers    \* interrupt.c: interrupt_handlers[MAX_INTERRUPT_HANDLERS]
  ,timer             \* timer.c: timer_initialized, timer_handler, and the
                     \* ENABLE bit of CNTP_CTL_EL0
  ,gicd_enabled      \* the interrupt ids whose enable bit is set in the GIC
                     \* distributor (GICD_ISENABLER / GICD_ICENABLER)
  ,gic_active        \* the IAR values read from GICC_IAR and not written to
                     \* GICC_EOIR since
  ,daif_i            \* the I bit of PSTATE: IRQs are masked at the CPU
  ,irq_result        \* the last call of the interrupt interface or of
                     \* scheduler_start: its name, its arguments, the value
                     \* it returned and its writes to GICC_EOIR
  ,create_result     \* the last call of process_create: the size it was
                     \* given and the value it returned
  ,kernel_pgd        \* kernel_mmu.c: kernel_pgd
  ,pt_mem            \* the page tables in memory: by the address of the
                     \* table, its entries that are not zero, by index
  ,mmu_calls         \* the last call of kernel_mmu_map and the last call of
                     \* kernel_mmu_translate: arguments and results
  ,ai_mem_pool       \* ai_memory.c: ai_mem_pool
  ,ai_tensors        \* the tensor_t objects, by address
  ,ai_data           \* the contents written to the data regions of tensors,
                     \* by the address written to
  ,ai_handed         \* the regions that ai_memory_alloc returned and that
                     \* were not passed to ai_memory_free since: their size,
                     \* by address
  ,ai_result         \* the last call of the tensor interface: its name, the
                     \* tensor it was given or returned, the value it
                     \* returned and where its data region came from
  ,boot_info         \* the argument of kernel_main: NULL, or the boot record
                     \* the bootloader left (its magic and its ram_size)
  ,kernel_main_frame \* kernel_main: the call it is about to make (pc), its
                     \* local res, the landmark lines it sent to the UART,
                     \* and the loads of boot_info->ram_size it made
  ,mmu_tables        \* mmu.c: level1_table, level2_ram_table,
                     \* level2_device_table, level3_tables, next_l3_table
  ,mmu_result        \* the last call of mmu_init, mmu_map or mmu_unmap: its
                     \* name and the value it returned
  ,heap_saddr        \* kernel_heap.saddr as a 64-bit word: the address that
                     \* the pointer HeapBase stands for
  ,svc_frame         \* the last call of svc_c_handler: the handler that
                     \* syscall_handler called, the int result, and the x0
                     \* it stored in the interrupt frame

heapVars == <<heap_total, entries, heap_oob>>
clientVars == <<held, hlast>>
kernelVars == <<tasks, task_list_head, current_task, next_task_id, procs,
                process_table, current_process, scheduler_running, mem_corrupt,
                starve>>
\* the state of the preemption, interrupt, timer and MMU models
preemptVars == <<kmalloc_frame, terminate_frame>>
syscallVars == <<syscall_table, syscall_result>>
irqVars == <<interrupt_initialized, interrupt_handlers, timer, gicd_enabled,
             gic_active, daif_i, irq_result>>
mmuVars == <<kernel_pgd, pt_mem, mmu_calls>>
aiVars == <<ai_mem_pool, ai_tensors, ai_data, ai_handed, ai_result>>
bootVars == <<boot_info, kernel_main_frame>>
pagingVars == <<mmu_tables, mmu_result>>
svcVars == <<heap_saddr, svc_frame>>
extVars == <<preemptVars, syscallVars, free_result, irqVars, create_result,
             mmuVars, aiVars, bootVars, pagingVars, svcVars>>
\* extVars but the variables of one model
extButPreempt == <<syscallVars, free_result, irqVars, create_result, mmuVars,
                   aiVars, bootVars,
                 pagingVars, svcVars>>
extButSyscall == <<preemptVars, free_result, irqVars, create_result, mmuVars,
                   aiVars, bootVars,
                 pagingVars, svcVars>>
extButFree == <<preemptVars, syscallVars, irqVars, create_result, mmuVars,
                aiVars, bootVars,
                 pagingVars, svcVars>>
extButIrq == <<preemptVars, syscallVars, free_result, create_result, mmuVars,
               aiVars, bootVars,
                 pagingVars, svcVars>>
extButCreate == <<preemptVars, syscallVars, free_result, irqVars, mmuVars,
                  aiVars, bootVars,
                 pagingVars, svcVars>>
extButMmu == <<preemptVars, syscallVars, free_result, irqVars, create_result,
               aiVars, bootVars,
                 pagingVars, svcVars>>
extButPaging == <<preemptVars, syscallVars, free_result, irqVars,
                  create_result, mmuVars, aiVars, bootVars, svcVars>>
extButSvc == <<preemptVars, free_result, irqVars, create_result, mmuVars,
               aiVars, bootVars, pagingVars>>
extButAi == <<preemptVars, syscallVars, free_result, irqVars, create_result,
              mmuVars, bootVars,
                 pagingVars, svcVars>>
vars == <<heap_total, entries, heap_oob, held, hlast, tasks, task_list_head,
          current_task, next_task_id, procs, process_table, current_process,
          scheduler_running, mem_corrupt, starve, extVars>>

\* A local variable that is assigned once: Only({e : x \in {v}}) is e with x
\* standing for the value of v
Only(S) == CHOOSE y \in S : TRUE

(***************************************************************************)
(* heap.c                                                                  *)
(***************************************************************************)
\* entry & 0x0F
heap_get_entry_type(entry) == entry % 16

\* entry & HEAP_BLOCK_HAS_NEXT, entry & HEAP_BLOCK_IS_FIRST
EntryHasNext(entry) == (entry \div HEAP_BLOCK_HAS_NEXT) % 2 = 1
EntryIsFirst(entry) == (entry \div HEAP_BLOCK_IS_FIRST) % 2 = 1

\* uint32_t heap_align_value_to_upper(uint32_t val): the argument and the
\* result are 32 bits wide
heap_align_value_to_upper(size) ==
  LET val == [q |-> size.q % UINT32_BLOCKS, r |-> size.r] IN
  IF val.r = 0 THEN val
  ELSE [q |-> (val.q + 1) % UINT32_BLOCKS, r |-> 0]

\* heap_get_start_block. bc counts the FREE entries in a row up to i and bs is
\* where that run starts; bc grows by one per entry, so it first equals
\* total_blocks (>= 1) at the end of the lowest window of total_blocks FREE
\* entries, and the loop breaks there with bs at the start of that window.
\* When the loop never breaks, bs is left at the start of the FREE run that
\* ends the table (-1 when the last entry is not FREE), and that is returned.
heap_get_start_block(ents, total, total_blocks) ==
  LET IsFree(i) == heap_get_entry_type(ents[i]) = HEAP_BLOCK_TABLE_ENTRY_FREE
      Fits(b) == \A j \in b..((b + total_blocks) - 1) : IsFree(j)
      starts == 0..(total - total_blocks)
      bs == IF total_blocks >= 1 /\ \E b \in starts : Fits(b)
            THEN CHOOSE b \in starts :
                   Fits(b) /\ \A c \in 0..(b - 1) : ~Fits(c)
            ELSE IF total > 0 /\ IsFree(total - 1)
                 THEN CHOOSE b \in 0..(total - 1) :
                        /\ (b = 0 \/ ~IsFree(b - 1))
                        /\ \A j \in b..(total - 1) : IsFree(j)
                 ELSE -1
  IN IF bs = -1 THEN -ENOMEM ELSE bs

heap_block_to_address(saddr, start_block) ==
  saddr + (start_block * KERNEL_HEAP_BLOCK_SIZE)

heap_address_to_block(saddr, address) ==
  (address - saddr) \div KERNEL_HEAP_BLOCK_SIZE

\* the loop of heap_mark_blocks_taken at index i, entry being the value to
\* store there; the stores inside the table
RECURSIVE MarkTakenLoop(_, _, _, _, _)
MarkTakenLoop(ents, total, i, end_block, entry) ==
  IF i > end_block \/ i >= total THEN ents
  ELSE MarkTakenLoop([ents EXCEPT ![i] = entry], total, i + 1, end_block,
                     HEAP_BLOCK_TABLE_ENTRY_TAKEN
                       + (IF i # end_block THEN HEAP_BLOCK_HAS_NEXT ELSE 0))

heap_mark_blocks_taken(ents, total, start_block, total_blocks) ==
  LET end_block == (start_block + total_blocks) - 1
      entry == HEAP_BLOCK_TABLE_ENTRY_TAKEN + HEAP_BLOCK_IS_FIRST
                 + (IF total_blocks > 1 THEN HEAP_BLOCK_HAS_NEXT ELSE 0)
  IN MarkTakenLoop(ents, total, start_block, end_block, entry)

\* heap_mark_blocks_taken has no bound check: the indices it stores to past
\* the end of the table (the memory that follows the block map)
MarkTakenOutOfTable(total, start_block, total_blocks) ==
  {i \in total..((start_block + total_blocks) - 1) : i >= start_block}

\* heap_mark_blocks_free with the HAS_NEXT test ahead of the store: the entry
\* that ends the chain is left as it is
RECURSIVE MarkBlocksFreeTestFirst(_, _, _)
MarkBlocksFreeTestFirst(ents, total, i) ==
  IF i >= total THEN ents
  ELSE IF ~EntryHasNext(ents[i]) THEN ents
       ELSE MarkBlocksFreeTestFirst([ents EXCEPT ![i] = HEAP_BLOCK_TABLE_ENTRY_FREE],
                                    total, i + 1)

\* heap_mark_blocks_free: the loop from index i on
RECURSIVE heap_mark_blocks_free(_, _, _)
heap_mark_blocks_free(ents, total, i) ==
  IF i >= total THEN ents
  ELSE IF ~EntryHasNext(ents[i])
       THEN [ents EXCEPT ![i] = HEAP_BLOCK_TABLE_ENTRY_FREE]
       ELSE heap_mark_blocks_free([ents EXCEPT ![i] = HEAP_BLOCK_TABLE_ENTRY_FREE],
                                  total, i + 1)

\* heap_malloc_blocks: the returned address, the new block map and the
\* out-of-table stores
heap_malloc_blocks(saddr, ents, total, total_blocks) ==
  Only({IF start_block < 0
        THEN [ret |-> NULL, entries |-> ents, oob |-> {}]
        ELSE [ret |-> heap_block_to_address(saddr, start_block),
              entries |-> heap_mark_blocks_taken(ents, total, start_block,
                                                 total_blocks),
              oob |-> MarkTakenOutOfTable(total, start_block, total_blocks)] :
          start_block \in {heap_get_start_block(ents, total, total_blocks)}})

\* heap_malloc: total_blocks = aligned_size / KERNEL_HEAP_BLOCK_SIZE
heap_malloc(saddr, ents, total, size) ==
  heap_malloc_blocks(saddr, ents, total, heap_align_value_to_upper(size).q)

\* heap_free
heap_free(saddr, ents, total, ptr) ==
  heap_mark_blocks_free(ents, total, heap_address_to_block(saddr, ptr))

\* kheap.c: kmalloc / kfree on the kernel heap
kmalloc(ents, total, size) == heap_malloc(HeapBase, ents, total, size)
kfree(ents, total, ptr) == heap_free(HeapBase, ents, total, ptr)

BlockOf(ptr) == heap_address_to_block(HeapBase, ptr)

(***************************************************************************)
(* The kernel state as one value, so that the C functions compose          *)
(***************************************************************************)
Machine ==
  [entries |-> entries, heap_oob |-> heap_oob, tasks |-> tasks,
   task_list_head |-> task_list_head, current_task |-> current_task,
   next_task_id |-> next_task_id, procs |-> procs,
   process_table |-> process_table, current_process |-> current_process,
   scheduler_running |-> scheduler_running, mem_corrupt |-> mem_corrupt,
   switched |-> NULL]

\* a function result: the state it leaves and the value it returns
Res(m, ret) == [m |-> m, ret |-> ret]

EmptyFn == [x \in {} |-> NULL]
Without(f, k) == [x \in (DOMAIN f) \ {k} |-> f[x]]
MinOf(S) == CHOOSE x \in S : \A y \in S : x <= y

\* the blocks of an allocation of size bytes at ptr
BlocksOf(ptr, size) ==
  {i \in 0..(heap_total - 1) :
      i >= BlockOf(ptr) /\ i < BlockOf(ptr) + heap_align_value_to_upper(size).q}

\* the heap blocks in use: those of the struct task and struct process
\* objects, of the allocation records, of argv and of its strings
LiveBlocks(m) ==
  {BlockOf(p) : p \in (DOMAIN m.tasks) \cup (DOMAIN m.procs)}
    \cup UNION {UNION {BlocksOf(m.procs[p].allocations[i].ptr,
                                m.procs[p].allocations[i].size) :
                         i \in DOMAIN m.procs[p].allocations} : p \in DOMAIN m.procs}
    \cup {BlockOf(m.procs[p].argv) : p \in {q \in DOMAIN m.procs : m.procs[q].argv # NULL}}
    \cup UNION {{BlockOf(m.procs[p].argv_strings[k]) :
                    k \in 1..Len(m.procs[p].argv_strings)} : p \in DOMAIN m.procs}

\* kmalloc on the kernel state. mem_corrupt records the stores of
\* heap_mark_blocks_taken past the table and the hand-out of memory that is
\* still in use.
k_kmalloc(m, size) ==
  Only({Res([m EXCEPT !.entries = r.entries,
                      !.heap_oob = @ \cup r.oob,
                      !.mem_corrupt =
                         \/ @
                         \/ r.oob # {}
                         \/ /\ r.ret # NULL
                            /\ (BlocksOf(r.ret, size) \cap LiveBlocks(m)) # {}],
            r.ret) :
          r \in {kmalloc(m.entries, heap_total, size)}})

\* kfree on the kernel state. kfree(NULL) computes a block index from
\* 0 - saddr and clears entries outside the table.
k_kfree(m, ptr) ==
  IF ptr = NULL THEN [m EXCEPT !.mem_corrupt = TRUE]
  ELSE [m EXCEPT !.entries = kfree(m.entries, heap_total, ptr)]

(***************************************************************************)
(* task.c                                                                  *)
(***************************************************************************)
\* task_new after the kmalloc: the fields of the new task and its place at the
\* tail of the ring
TaskNewLink(m, task, task_priority) ==
  LET head == m.task_list_head
      rec == [id |-> m.next_task_id, state |-> TASK_STATE_NEW,
              priority |-> IF task_priority # 0 THEN task_priority
                           ELSE TASK_PRIORITY_NORMAL,
              sp |-> 0, pc |-> 0, process |-> NULL,
              next |-> NULL, prev |-> NULL]
  IN IF head = NULL
     THEN Res([m EXCEPT
                 !.next_task_id = @ + 1,
                 !.tasks = (task :> [rec EXCEPT !.next = task, !.prev = task]) @@ @,
                 !.task_list_head = task], task)
     ELSE
       LET tail == m.tasks[head].prev
       IN Res([m EXCEPT
                 !.next_task_id = @ + 1,
                 !.tasks = [(task :> [rec EXCEPT !.next = head, !.prev = tail]) @@ @
                              EXCEPT ![tail].next = task, ![head].prev = task]],
              task)

task_new(m, task_priority) ==
  IF /\ task_priority # TASK_PRIORITY_HIGH
     /\ task_priority # TASK_PRIORITY_LOW
     /\ task_priority # TASK_PRIORITY_NORMAL
  THEN Res(m, NULL)
  ELSE
    Only({IF a.ret = NULL THEN Res(a.m, NULL)
          ELSE TaskNewLink(a.m, a.ret, task_priority) :
            a \in {k_kmalloc(m, Bytes(SIZEOF_TASK))}})

\* task_free that leaves task_list_head alone
TaskFreeHeadKept(m, task) ==
  IF task = NULL THEN Res(m, -EINVARG)
  ELSE
    LET T == m.tasks
        m1 == IF T[task].next = task /\ T[task].prev = task
              THEN m
              ELSE LET T1 == [T EXCEPT ![T[task].prev].next = T[task].next]
                       T2 == [T1 EXCEPT ![T1[task].next].prev = T1[task].prev]
                   IN [m EXCEPT !.tasks = T2]
        m2 == [m1 EXCEPT !.current_task = IF @ = task THEN NULL ELSE @]
        m3 == k_kfree(m2, task)
    IN Res([m3 EXCEPT !.tasks = Without(@, task)], EOK)

task_free(m, task) ==
  IF task = NULL THEN Res(m, -EINVARG)
  ELSE
    LET T == m.tasks
        m1 == IF T[task].next = task /\ T[task].prev = task
              THEN [m EXCEPT !.task_list_head = IF @ = task THEN NULL ELSE @]
              ELSE LET T1 == [T EXCEPT ![T[task].prev].next = T[task].next]
                       T2 == [T1 EXCEPT ![T1[task].next].prev = T1[task].prev]
                   IN [m EXCEPT !.task_list_head = IF @ = task THEN T[task].next ELSE @,
                                !.tasks = T2]
        m2 == [m1 EXCEPT !.current_task = IF @ = task THEN NULL ELSE @]
        m3 == k_kfree(m2, task)
    IN Res([m3 EXCEPT !.tasks = Without(@, task)], EOK)

\* task_switch: on success task_restore_context does not return; the field
\* switched records the task control went to
task_switch(m, task) ==
  IF task = NULL THEN Res(m, -EINVARG)
  ELSE IF m.tasks[task].sp = 0 THEN Res(m, -EFAULT)
  ELSE IF m.tasks[task].pc = 0 THEN Res(m, -EFAULT)
  ELSE Res([m EXCEPT !.current_task = task,
                     !.tasks[task].state = TASK_STATE_RUNNING,
                     !.switched = task], EOK)

\* the do-while of task_schedule: the first READY task from next on, NULL
\* when the walk is back at start
RECURSIVE ScheduleWalk(_, _, _)
ScheduleWalk(m, next, start) ==
  IF m.tasks[next].state = TASK_STATE_READY THEN next
  ELSE LET n2 == m.tasks[next].next
       IN IF n2 = start THEN NULL ELSE ScheduleWalk(m, n2, start)

task_schedule(m) ==
  IF m.task_list_head = NULL THEN Res(m, -ENOTASK)
  ELSE IF m.current_task = NULL THEN task_switch(m, m.task_list_head)
  ELSE
    LET start == m.tasks[m.current_task].next
        next == ScheduleWalk(m, start, start)
    IN IF next = NULL
       THEN IF m.tasks[m.current_task].state = TASK_STATE_RUNNING
            THEN Res(m, EOK)
            ELSE Res(m, -ENOTASK)
       ELSE task_switch(m, next)

task_run_first_ever_task(m) ==
  IF m.task_list_head = NULL THEN Res(m, -ENOTASK)
  ELSE LET task == ScheduleWalk(m, m.task_list_head, m.task_list_head)
       IN IF task = NULL THEN Res(m, -ENOTASK) ELSE task_switch(m, task)

task_return(m) ==
  IF m.current_task = NULL THEN Res(m, -EINVARG)
  ELSE task_schedule([m EXCEPT !.tasks[m.current_task].state = TASK_STATE_FINISHED])

task_block(m) ==
  IF m.current_task = NULL THEN Res(m, -EINVARG)
  ELSE task_schedule([m EXCEPT !.tasks[m.current_task].state = TASK_STATE_BLOCKED])

task_unblock(m, task) ==
  IF task = NULL THEN Res(m, -EINVARG)
  ELSE IF m.tasks[task].state = TASK_STATE_BLOCKED
       THEN Res([m EXCEPT !.tasks[task].state = TASK_STATE_READY], EOK)
       ELSE Res(m, EOK)

(***************************************************************************)
(* process_memory.c                                                        *)
(***************************************************************************)
NoAllocation == [ptr |-> NULL, size |-> Bytes(0)]
AllocIndices == 0..(SYNAPSE_MAX_PROCESSES_ALLOCATIONS - 1)

\* process->allocations[i]. The array is held by its records that are not
\* {NULL, 0}: an index outside the domain is a zeroed record.
AllocAt(proc, i) ==
  IF i \in DOMAIN proc.allocations THEN proc.allocations[i] ELSE NoAllocation

\* process->allocations[i] = rec
SetAlloc(allocations, i, rec) ==
  IF rec = NoAllocation THEN Without(allocations, i)
  ELSE (i :> rec) @@ allocations

process_find_free_allocation_index(proc) ==
  LET free == {i \in AllocIndices : AllocAt(proc, i).ptr = NULL}
  IN IF free = {} THEN -EPMAX ELSE MinOf(free)

process_malloc(m, process, size) ==
  IF process = NULL \/ size = Bytes(0) THEN Res(m, NULL)
  ELSE
    Only({IF index < 0 THEN Res(m, NULL)
          ELSE Only({IF a.ret = NULL THEN Res(a.m, NULL)
                     ELSE Res([a.m EXCEPT
                                 !.procs[process].allocations =
                                    SetAlloc(@, index,
                                             [ptr |-> a.ret, size |-> size])],
                              a.ret) :
                       a \in {k_kmalloc(m, size)}}) :
            index \in {process_find_free_allocation_index(m.procs[process])}})

\* process_free without the search of the allocation table
ProcessFreeUnchecked(m, process, ptr) ==
  IF process = NULL \/ ptr = NULL THEN Res(m, -EINVARG)
  ELSE Res([k_kfree(m, ptr) EXCEPT
              !.procs[process].allocations =
                 [i \in {j \in DOMAIN @ : @[j].ptr # ptr} |-> @[i]]], EOK)

process_free(m, process, ptr) ==
  IF process = NULL \/ ptr = NULL THEN Res(m, -EINVARG)
  ELSE
    LET hits == {i \in AllocIndices : AllocAt(m.procs[process], i).ptr = ptr} IN
    IF hits = {} THEN Res(m, -EINVARG)
    ELSE Res([k_kfree(m, ptr) EXCEPT
                !.procs[process].allocations =
                   SetAlloc(@, MinOf(hits), NoAllocation)], EOK)

(***************************************************************************)
(* process.c                                                               *)
(***************************************************************************)
Pids == 0..(SYNAPSE_MAX_PROCESSES - 1)

process_allocate_slot(m) ==
  LET free == {i \in Pids : m.process_table[i] = NULL}
  IN IF free = {} THEN -EPMAX ELSE MinOf(free)

\* process_init: the zeroed structure with its id
process_init(id) ==
  [id |-> id, task |-> NULL,
   allocations |-> EmptyFn,
   ptr |-> NULL, size |-> Bytes(0), stack |-> NULL,
   argc |-> 0, argv |-> NULL, argv_strings |-> << >>]

\* kfree(process): the structure is gone
FreeProcessStruct(m, process) ==
  [k_kfree(m, process) EXCEPT !.procs = Without(@, process)]

process_allocate_stack(m, process) ==
  Only({IF a.ret = NULL THEN Res(a.m, -ENOMEM)
        ELSE Res([a.m EXCEPT !.procs[process].stack = a.ret], EOK) :
          a \in {process_malloc(m, process, Bytes(SYNAPSE_PROCESS_STACK_SIZE))}})

process_load_binary(m, process, size) ==
  IF process = NULL \/ size = Bytes(0) THEN Res(m, -EINVARG)
  ELSE
    Only({IF a.ret = NULL THEN Res(a.m, -ENOMEM)
          ELSE Res([a.m EXCEPT !.procs[process].ptr = a.ret,
                               !.procs[process].size = size], EOK) :
            a \in {process_malloc(m, process, size)}})

process_create_task(m, process) ==
  Only({IF a.ret = NULL THEN Res(a.m, -ENOMEM)
        ELSE
          LET task == a.ret
              proc == a.m.procs[process]
              stack_top == proc.stack + SYNAPSE_PROCESS_STACK_SIZE
              sp_value == stack_top - (stack_top % 16)
          IN Res([a.m EXCEPT !.tasks[task].process = process,
                             !.procs[process].task = task,
                             !.tasks[task].pc = proc.ptr,
                             !.tasks[task].sp = sp_value,
                             !.tasks[task].state = TASK_STATE_READY], EOK) :
          a \in {task_new(m, TASK_PRIORITY_NORMAL)}})

\* process_create from the stack allocation on; m holds the initialised
\* structure at process, slot is its reserved id
ProcessCreateBody(m, process, slot, size) ==
  Only({
    IF st.ret < 0 THEN Res(FreeProcessStruct(st.m, process), st.ret)
    ELSE Only({
      IF bin.ret < 0
      THEN Res(FreeProcessStruct(
                 process_free(bin.m, process, bin.m.procs[process].stack).m,
                 process), bin.ret)
      ELSE Only({
        IF tk.ret < 0
        THEN Only({Res(FreeProcessStruct(
                         process_free(f1, process, f1.procs[process].ptr).m,
                         process), tk.ret) :
                     f1 \in {process_free(tk.m, process,
                                          tk.m.procs[process].stack).m}})
        ELSE Res([tk.m EXCEPT !.process_table[slot] = process], slot) :
          tk \in {process_create_task(bin.m, process)}}) :
        bin \in {process_load_binary(st.m, process, size)}}) :
      st \in {process_allocate_stack(m, process)}})

process_create(m, size) ==
  IF size = Bytes(0) THEN Res(m, -EINVARG)
  ELSE
    Only({IF slot < 0 THEN Res(m, slot)
          ELSE Only({IF a.ret = NULL THEN Res(a.m, -ENOMEM)
                     ELSE ProcessCreateBody(
                            [a.m EXCEPT !.procs = (a.ret :> process_init(slot)) @@ @],
                            a.ret, slot, size) :
                       a \in {k_kmalloc(m, Bytes(SIZEOF_PROCESS))}}) :
            slot \in {process_allocate_slot(m)}})

process_current(m) ==
  IF m.current_process >= SYNAPSE_MAX_PROCESSES THEN NULL
  ELSE m.process_table[m.current_process]

process_get(m, id) ==
  IF id >= SYNAPSE_MAX_PROCESSES THEN NULL ELSE m.process_table[id]

\* process_switch: the test of process_table[current_process] only decides
\* whether task_save_context runs, which stores the live registers in the
\* current task's frame; the frame's sp and pc stay non-zero
process_switch(m, id) ==
  IF id >= SYNAPSE_MAX_PROCESSES THEN Res(m, -EINVARG)
  ELSE IF m.process_table[id] = NULL THEN Res(m, -EINVARG)
  ELSE
    LET m1 == [m EXCEPT !.current_process = id]
        sw == task_switch(m1, m1.procs[m1.process_table[id]].task)
    IN Res(sw.m, EOK)

\* the loop of process_terminate over the allocation table, from index i on:
\* the iterations at an empty record do nothing and are skipped
RECURSIVE FreeAllocations(_, _, _)
FreeAllocations(m, process, i) ==
  LET rest == {j \in AllocIndices :
                 j >= i /\ AllocAt(m.procs[process], j).ptr # NULL}
  IN IF rest = {} THEN m
     ELSE LET j == MinOf(rest)
              rec == AllocAt(m.procs[process], j)
          IN FreeAllocations(
               [k_kfree(m, rec.ptr) EXCEPT
                  !.procs[process].allocations =
                     SetAlloc(@, j, [rec EXCEPT !.size = Bytes(0)])],
               process, j + 1)

\* the loop over argv[0 .. argc-1], then kfree(argv)
RECURSIVE FreeStrings(_, _, _)
FreeStrings(m, strings, i) ==
  IF i > Len(strings) THEN m
  ELSE FreeStrings(IF strings[i] # NULL THEN k_kfree(m, strings[i]) ELSE m,
                   strings, i + 1)

FreeArguments(m, process) ==
  LET proc == m.procs[process] IN
  IF proc.argv # NULL
  THEN k_kfree(FreeStrings(m, SubSeq(proc.argv_strings, 1, proc.argc), 1), proc.argv)
  ELSE m

\* process_terminate, the first half: the allocations, the arguments and
\* task_free(process->task)
ProcessTerminateFree(m, process) ==
  Only({task_free(m2, m2.procs[process].task).m :
          m2 \in {FreeArguments(FreeAllocations(m, process, 0), process)}})

\* process_terminate, the second half: process_table[id] = NULL,
\* kfree(process) and current_process
ProcessTerminateClear(m, id, process) ==
  [FreeProcessStruct([m EXCEPT !.process_table[id] = NULL], process)
     EXCEPT !.current_process = IF id = @ THEN SYNAPSE_MAX_PROCESSES ELSE @]

process_terminate(m, id) ==
  IF id >= SYNAPSE_MAX_PROCESSES THEN Res(m, -EINVARG)
  ELSE IF m.process_table[id] = NULL THEN Res(m, -EINVARG)
  ELSE
    Res(ProcessTerminateClear(ProcessTerminateFree(m, m.process_table[id]),
                              id, m.process_table[id]), EOK)

\* the copy loop of process_set_arguments, argv[i] # NULL for every i: lens
\* are the lengths strlen(argv[i]) + 1. On a failed kmalloc at index i the
\* code calls kfree(process->arguments.argv[i]), the null pointer, i times.
RECURSIVE CopyArguments(_, _, _, _)
CopyArguments(m, process, lens, i) ==
  IF i > Len(lens)
  THEN Res([m EXCEPT !.procs[process].argc = Len(lens)], EOK)
  ELSE
    Only({IF a.ret = NULL
          THEN Res([k_kfree(IF i > 1 THEN k_kfree(a.m, NULL) ELSE a.m,
                            a.m.procs[process].argv)
                      EXCEPT !.procs[process].argv = NULL], -ENOMEM)
          ELSE CopyArguments(
                 [a.m EXCEPT !.procs[process].argv_strings = Append(@, a.ret)],
                 process, lens, i + 1) :
            a \in {k_kmalloc(m, lens[i])}})

\* After the old vector is freed its pointer is dead: every path below stores
\* to process->arguments.argv before anything reads it.
process_set_arguments(m, process, lens) ==
  IF process = NULL THEN Res(m, -EINVARG)
  ELSE
    Only({
      IF Len(lens) = 0
      THEN Res([m1 EXCEPT !.procs[process].argc = 0,
                          !.procs[process].argv = NULL], EOK)
      ELSE
        Only({IF a.ret = NULL
              THEN Res([a.m EXCEPT !.procs[process].argv = NULL], -ENOMEM)
              ELSE CopyArguments(
                     [a.m EXCEPT !.procs[process].argv = a.ret,
                                 !.procs[process].argv_strings = << >>],
                     process, lens, 1) :
                a \in {k_kmalloc(m1, Bytes(8 * Len(lens)))}}) :
        m1 \in {[FreeArguments(m, process) EXCEPT
                   !.procs[process].argv = NULL,
                   !.procs[process].argv_strings = << >>]}})

\* process_get_arguments with both out-pointers given: *argc, *argv, and
\* the strings the caller reads through *argv
process_get_arguments(m, id) ==
  IF id >= SYNAPSE_MAX_PROCESSES
  THEN [ret |-> -EINVARG, argc |-> 0, argv |-> NULL, strings |-> << >>]
  ELSE IF m.process_table[id] = NULL
  THEN [ret |-> -EINVARG, argc |-> 0, argv |-> NULL, strings |-> << >>]
  ELSE [ret |-> EOK, argc |-> m.procs[m.process_table[id]].argc,
        argv |-> m.procs[m.process_table[id]].argv,
        strings |-> m.procs[m.process_table[id]].argv_strings]

(***************************************************************************)
(* scheduler.c                                                             *)
(***************************************************************************)
\* -ENOENT returned through pid_t (uint16_t)
task_schedule_next_process(m) ==
  LET ready == {i \in Pids :
                  LET proc == process_get(m, i) IN
                    /\ proc # NULL
                    /\ m.procs[proc].task # NULL
                    /\ m.tasks[m.procs[proc].task].state = TASK_STATE_READY}
  IN IF ready = {} THEN UINT16_MOD - ENOENT ELSE MinOf(ready)

scheduler_timer_handler(m) ==
  IF ~m.scheduler_running THEN Res(m, EOK)
  ELSE
    LET current == m.current_task
        m1 == IF current # NULL /\ m.tasks[current].state = TASK_STATE_RUNNING
              THEN [m EXCEPT !.tasks[current].state = TASK_STATE_READY]
              ELSE m
        next_pid == task_schedule_next_process(m1)
    IN Res(process_switch(m1, next_pid).m, EOK)

\* scheduler_start, steps 3 and 4 (the timer and the interrupt mask are not
\* part of this state)
scheduler_start(m) ==
  Only({IF r.ret < 0 THEN Res([r.m EXCEPT !.scheduler_running = FALSE], r.ret)
        ELSE Res(r.m, EOK) :
          r \in {task_run_first_ever_task([m EXCEPT !.scheduler_running = TRUE])}})

(***************************************************************************)
(* syscall.c                                                               *)
(***************************************************************************)
syscall_process_exit(m) ==
  LET current == process_current(m)
      m1 == IF current # NULL
            THEN process_terminate(m, m.procs[current].id).m
            ELSE m
      s == task_schedule(m1)
  IN Res(s.m, -ESYSCALL)

\* size is the long argument, > 0 here
syscall_process_malloc(m, size) ==
  LET current == process_current(m) IN
  IF current = NULL \/ size = Bytes(0) THEN Res(m, 0)
  ELSE process_malloc(m, current, size)

syscall_process_free(m, ptr) ==
  LET current == process_current(m) IN
  IF current = NULL \/ ptr = 0 THEN Res(m, -EINVARG)
  ELSE process_free(m, current, ptr)

syscall_process_get_args(m, argc_ptr, argv_ptr) ==
  IF process_current(m) = NULL THEN Res(m, -EINVARG) ELSE Res(m, EOK)

syscall_internal_print_char(m, character) == Res(m, EOK)

syscall_internal_print_string(m, str) ==
  IF str = 0 THEN Res(m, -EINVARG) ELSE Res(m, EOK)

\* the call syscall_table[syscall_num](arg1, arg2, arg3, arg4) of handler h;
\* arg2 .. arg4 are 0 in every wrapper but syscall_get_args
CallSyscallHandler(h, m, arg1) ==
  CASE h = "syscall_process_exit" -> syscall_process_exit(m)
    [] h = "syscall_process_malloc" ->
         syscall_process_malloc(m, IF arg1 <= 0 THEN Bytes(0) ELSE Bytes(arg1))
    [] h = "syscall_process_free" -> syscall_process_free(m, arg1)
    [] h = "syscall_process_get_args" -> syscall_process_get_args(m, arg1, 0)
    [] h = "syscall_internal_print_char" -> syscall_internal_print_char(m, arg1)
    [] h = "syscall_internal_print_string" -> syscall_internal_print_string(m, arg1)

\* syscall_init: the table after the six stores
syscall_init(table) ==
  [table EXCEPT ![SYSCALL_PROCESS_EXIT] = "syscall_process_exit",
                ![SYSCALL_PROCESS_MALLOC] = "syscall_process_malloc",
                ![SYSCALL_PROCESS_FREE] = "syscall_process_free",
                ![SYSCALL_PROCESS_GET_ARGS] = "syscall_process_get_args",
                ![SYSCALL_PRINT_CHAR] = "syscall_internal_print_char",
                ![SYSCALL_PRINT_STRING] = "syscall_internal_print_string"]

\* syscall_handler with the handler's return value dropped
SyscallHandlerDropsResult(m, table, syscall_num, arg1) ==
  IF syscall_num < 0 \/ syscall_num >= SYSCALL_MAX
       \/ table[syscall_num] = NoHandler
  THEN [m |-> m, ret |-> -EINVSYSCALL, called |-> NoHandler]
  ELSE [m |-> CallSyscallHandler(table[syscall_num], m, arg1).m,
        ret |-> EOK, called |-> table[syscall_num]]

\* syscall_handler: the state it leaves, the value it returns and the handler
\* it called
syscall_handler(m, table, syscall_num, arg1) ==
  IF syscall_num < 0 \/ syscall_num >= SYSCALL_MAX
       \/ table[syscall_num] = NoHandler
  THEN [m |-> m, ret |-> -EINVSYSCALL, called |-> NoHandler]
  ELSE Only({[m |-> r.m, ret |-> r.ret, called |-> table[syscall_num]] :
               r \in {CallSyscallHandler(table[syscall_num], m, arg1)}})

(***************************************************************************)
(* The heap client: any sequence of kmalloc(size) and kfree(p) of a        *)
(* pointer kmalloc returned (memory_test_kernel_heap is one such sequence) *)
(***************************************************************************)
NoPtr == [ptr |-> NULL, size |-> Bytes(0)]

\* request sizes in bytes: one byte, one block, one byte more than a block,
\* two blocks, and 2^32 - 1, whose 32-bit round-up wraps
ReqSizes ==
  {Bytes(1), Bytes(KERNEL_HEAP_BLOCK_SIZE), Bytes(KERNEL_HEAP_BLOCK_SIZE + 1),
   Bytes(KERNEL_HEAP_BLOCK_SIZE + KERNEL_HEAP_BLOCK_SIZE),
   [q |-> UINT32_BLOCKS - 1, r |-> KERNEL_HEAP_BLOCK_SIZE - 1]}

\* the lowest free slot of the client: slots are only names for the client's
\* pointer variables
FreeSlot == CHOOSE s \in 1..MaxAllocs :
              held[s] = NoPtr /\ \A t \in 1..(s - 1) : held[t] # NoPtr

(***************************************************************************)
(* kernel_mmu.c. An address is the record of its page number (bits 12 to   *)
(* 47), its offset in the page, and high: it lies in the upper half, at    *)
(* KERNEL_VIRT_BASE + (page, off). A page-table entry is the record of     *)
(* its type bits, the page number in its address bits, and its attribute   *)
(* bits, which lie outside PTE_TABLE_ADDR_MASK and PTE_BLOCK_ADDR_MASK.    *)
(***************************************************************************)
Addr(high, page, off) == [high |-> high, page |-> page, off |-> off]

\* addr & ~(PAGE_SIZE - 1)
PageAlign(addr) == [addr EXCEPT !.off = 0]

\* addr + i * PAGE_SIZE
AddPages(addr, i) == [addr EXCEPT !.page = @ + i]

\* ((size + PAGE_SIZE - 1) & ~(PAGE_SIZE - 1)) / PAGE_SIZE
PagesOf(size) == (size + KERNEL_HEAP_BLOCK_SIZE - 1) \div KERNEL_HEAP_BLOCK_SIZE

\* (addr >> shift) & mask
TableIndex(addr, shift, mask) ==
  (addr.page \div (2 ^ (shift - PTE_SHIFT))) % (mask + 1)

\* the attribute bits of an entry, field by field: AF (bit 10), SH (bits 8
\* and 9), AP (bits 6 and 7), AttrIndx (bits 2 to 4), UXN (bit 54) and PXN
\* (bit 53), all outside the address bits and the type bits
NoAttr == [af |-> 0, sh |-> 0, ap |-> 0, indx |-> 0, uxn |-> 0, pxn |-> 0]

ZeroEntry == [type |-> PTE_TYPE_FAULT, page |-> 0, attr |-> NoAttr]

\* table[index] for a table in memory
LoadEntry(mem, table, index) ==
  IF table \in DOMAIN mem /\ index \in DOMAIN mem[table]
  THEN mem[table][index] ELSE ZeroEntry

\* table[index] = entry
StoreEntry(mem, table, index, entry) ==
  [mem EXCEPT ![table] = (index :> entry) @@ @]

\* the page number of a pointer into the kernel heap, and back: the heap
\* lies below 0x1080000000, where kernel_virt_to_phys is the identity
kernel_virt_to_phys(ptr) == ptr \div KERNEL_HEAP_BLOCK_SIZE
kpage_from_phys(page) == page * KERNEL_HEAP_BLOCK_SIZE

\* one level of the walk of kernel_mmu_map: the table that table[index]
\* names, allocated and entered when the entry is not a table. st: the
\* block map, the tables, and next, the table found (NULL: no memory)
NextTable(st, table, index) ==
  IF LoadEntry(st.pt_mem, table, index).type # PTE_TYPE_FAULT
  THEN [st EXCEPT !.next = kpage_from_phys(LoadEntry(st.pt_mem, table, index).page)]
  ELSE Only({IF a.ret = NULL THEN [st EXCEPT !.next = NULL]
             ELSE [entries |-> a.entries,
                   pt_mem |-> StoreEntry((a.ret :> EmptyFn) @@ st.pt_mem,
                                         table, index,
                                         [type |-> PTE_TYPE_TABLE,
                                          page |-> kernel_virt_to_phys(a.ret),
                                          attr |-> NoAttr]),
                   next |-> a.ret] :
               a \in {kmalloc(st.entries, heap_total,
                              Bytes(KERNEL_HEAP_BLOCK_SIZE))}})

\* the body of the loop of kernel_mmu_map for one page
MapPage(st, pgd, curr_virt, curr_phys, pte_attr) ==
  Only({IF pud.next = NULL THEN [st |-> pud, ret |-> -ENOMEM]
        ELSE Only({IF pmd.next = NULL THEN [st |-> pmd, ret |-> -ENOMEM]
                   ELSE Only({IF pt.next = NULL THEN [st |-> pt, ret |-> -ENOMEM]
                              ELSE [st |-> [pt EXCEPT !.pt_mem =
                                              StoreEntry(@, pt.next,
                                                TableIndex(curr_virt, PTE_SHIFT, PTE_MASK),
                                                [type |-> PTE_TYPE_PAGE,
                                                 page |-> curr_phys.page,
                                                 attr |-> pte_attr])],
                                    ret |-> EOK] :
                                pt \in {NextTable(pmd, pmd.next,
                                          TableIndex(curr_virt, PMD_SHIFT, PMD_MASK))}}) :
                     pmd \in {NextTable(pud, pud.next,
                                TableIndex(curr_virt, PUD_SHIFT, PUD_MASK))}}) :
          pud \in {NextTable(st, pgd,
                     TableIndex(curr_virt, PGD_SHIFT, PGD_MASK))}})

\* the loop of kernel_mmu_map from page i on
RECURSIVE MapPages(_, _, _, _, _, _, _)
MapPages(st, pgd, virt_aligned, phys_aligned, pages, pte_attr, i) ==
  IF i >= pages THEN [st |-> st, ret |-> EOK]
  ELSE Only({IF r.ret < 0 THEN r
             ELSE MapPages(r.st, pgd, virt_aligned, phys_aligned, pages,
                           pte_attr, i + 1) :
               r \in {MapPage(st, pgd, AddPages(virt_aligned, i),
                              AddPages(phys_aligned, i), pte_attr)}})

\* flags & flag, for a flag of one bit
HasFlag(flags, flag) == (flags \div flag) % 2 = 1

flags_to_pte_attr(flags) ==
  [af |-> 1,
   indx |-> IF HasFlag(flags, MAP_DEVICE) THEN MEMORY_ATTR_DEVICE_nGnRE
            ELSE IF HasFlag(flags, MAP_CACHE_WB) THEN MEMORY_ATTR_NORMAL_WB
            ELSE IF HasFlag(flags, MAP_CACHE_WT) THEN MEMORY_ATTR_NORMAL_WT
            ELSE IF HasFlag(flags, MAP_CACHE_NC) THEN MEMORY_ATTR_NORMAL_NC
            ELSE MEMORY_ATTR_NORMAL_WB,
   sh |-> IF HasFlag(flags, MAP_DEVICE) THEN 0 ELSE PTE_ATTR_SH_INNER,
   ap |-> IF HasFlag(flags, MAP_WRITE)
          THEN (IF HasFlag(flags, MAP_USER) THEN PTE_ATTR_AP_RW_ALL
                ELSE PTE_ATTR_AP_RW_EL1)
          ELSE (IF HasFlag(flags, MAP_USER) THEN PTE_ATTR_AP_RO_ALL
                ELSE PTE_ATTR_AP_RO_EL1),
   uxn |-> IF ~HasFlag(flags, MAP_EXEC) THEN 1
           ELSE IF ~HasFlag(flags, MAP_USER) THEN 1 ELSE 0,
   pxn |-> IF ~HasFlag(flags, MAP_EXEC) THEN 1 ELSE 0]

kernel_mmu_map(st, pgd, phys_addr, virt_addr, size, flags) ==
  MapPages(st, pgd, PageAlign(virt_addr), PageAlign(phys_addr),
           PagesOf(size), flags_to_pte_attr(flags), 0)

\* kernel_mmu_init: the PGD is a zeroed page of the heap
kernel_mmu_init(st) ==
  Only({IF a.ret = NULL THEN [st |-> st, pgd |-> NULL, ret |-> -ENOMEM]
        ELSE [st |-> [st EXCEPT !.entries = a.entries,
                                !.pt_mem = (a.ret :> EmptyFn) @@ @],
              pgd |-> a.ret, ret |-> EOK] :
          a \in {kmalloc(st.entries, heap_total, Bytes(KERNEL_HEAP_BLOCK_SIZE))}})

\* what a load through the pointer (entry & PTE_TABLE_ADDR_MASK) +
\* KERNEL_VIRT_BASE does. The MMU is off (kernel_mmu_enable is not called),
\* so the pointer is a physical address, and there is no memory at it: the
\* load ends in a data abort, or the bus answers zero
HighLoads == {"abort", "zero"}

\* table[index] for the table at KERNEL_VIRT_BASE + page * PAGE_SIZE;
\* "linear" is the memory that a linear map of the upper half would show
HighLoadEntry(mem, page, index, load) ==
  IF load = "linear" THEN LoadEntry(mem, kpage_from_phys(page), index)
  ELSE ZeroEntry

\* kernel_mmu_translate with a non-null phys_addr. aborted: a load has
\* ended in a data abort and the function has not returned
kernel_mmu_translate(mem, pgd, virt_addr, load) ==
  LET none == Addr(FALSE, 0, 0)
      pgd_entry == LoadEntry(mem, pgd, TableIndex(virt_addr, PGD_SHIFT, PGD_MASK))
      pud_entry == HighLoadEntry(mem, pgd_entry.page,
                     TableIndex(virt_addr, PUD_SHIFT, PUD_MASK), load)
      pmd_entry == HighLoadEntry(mem, pud_entry.page,
                     TableIndex(virt_addr, PMD_SHIFT, PMD_MASK), load)
      pte == HighLoadEntry(mem, pmd_entry.page,
               TableIndex(virt_addr, PTE_SHIFT, PTE_MASK), load)
  IN IF pgd_entry.type = PTE_TYPE_FAULT
     THEN [aborted |-> FALSE, ret |-> -EFAULT, phys |-> none]
     ELSE IF load = "abort"
     THEN [aborted |-> TRUE, ret |-> EOK, phys |-> none]
     ELSE IF pud_entry.type = PTE_TYPE_FAULT
     THEN [aborted |-> FALSE, ret |-> -EFAULT, phys |-> none]
     ELSE IF pmd_entry.type = PTE_TYPE_FAULT
     THEN [aborted |-> FALSE, ret |-> -EFAULT, phys |-> none]
     ELSE IF pte.type = PTE_TYPE_FAULT
     THEN [aborted |-> FALSE, ret |-> -EFAULT, phys |-> none]
     ELSE [aborted |-> FALSE, ret |-> EOK,
           phys |-> Addr(FALSE, pte.page, virt_addr.off)]

\* table[index] = entry for the table at KERNEL_VIRT_BASE + page * PAGE_SIZE
HighStoreEntry(mem, page, index, entry, load) ==
  IF load = "linear" THEN StoreEntry(mem, kpage_from_phys(page), index, entry)
  ELSE mem

\* the body of the loop of kernel_mmu_unmap for one page
UnmapPage(mem, pgd, curr_virt, load) ==
  LET pgd_entry == LoadEntry(mem, pgd, TableIndex(curr_virt, PGD_SHIFT, PGD_MASK))
      pud_entry == HighLoadEntry(mem, pgd_entry.page,
                     TableIndex(curr_virt, PUD_SHIFT, PUD_MASK), load)
      pmd_entry == HighLoadEntry(mem, pud_entry.page,
                     TableIndex(curr_virt, PMD_SHIFT, PMD_MASK), load)
  IN IF pgd_entry.type = PTE_TYPE_FAULT THEN [mem |-> mem, aborted |-> FALSE]
     ELSE IF load = "abort" THEN [mem |-> mem, aborted |-> TRUE]
     ELSE IF pud_entry.type = PTE_TYPE_FAULT THEN [mem |-> mem, aborted |-> FALSE]
     ELSE IF pmd_entry.type = PTE_TYPE_FAULT THEN [mem |-> mem, aborted |-> FALSE]
     ELSE [mem |-> HighStoreEntry(mem, pmd_entry.page,
                     TableIndex(curr_virt, PTE_SHIFT, PTE_MASK), ZeroEntry, load),
           aborted |-> FALSE]

\* the loop of kernel_mmu_unmap from page i on
RECURSIVE UnmapPages(_, _, _, _, _, _)
UnmapPages(mem, pgd, virt_aligned, pages, load, i) ==
  IF i >= pages THEN [mem |-> mem, aborted |-> FALSE, ret |-> EOK]
  ELSE Only({IF r.aborted THEN [mem |-> r.mem, aborted |-> TRUE, ret |-> EOK]
             ELSE UnmapPages(r.mem, pgd, virt_aligned, pages, load, i + 1) :
               r \in {UnmapPage(mem, pgd, AddPages(virt_aligned, i), load)}})

\* kernel_mmu_unmap. aborted: a load has ended in a data abort and the
\* function has not returned
kernel_mmu_unmap(mem, pgd, virt_addr, size, load) ==
  UnmapPages(mem, pgd, PageAlign(virt_addr), PagesOf(size), load, 0)

\* the second half of kernel_mmu_get_flags: the flags it makes of the
\* attribute index, of AP and of the execute-never bits of a PTE. Its last
\* memory-type test is an assignment whose value is never zero
pte_attr_to_flags(attr) ==
  (IF attr.indx \in {MEMORY_ATTR_DEVICE_nGnRE, MEMORY_ATTR_DEVICE_nGnRnE,
                     MEMORY_ATTR_DEVICE_GRE}
   THEN MAP_DEVICE
   ELSE IF attr.indx = MEMORY_ATTR_NORMAL_WB THEN MAP_CACHE_WB
   ELSE IF attr.indx = MEMORY_ATTR_NORMAL_WT THEN MAP_CACHE_WT
   ELSE MAP_CACHE_NC)
  + (IF attr.ap = 0 THEN MAP_WRITE
     ELSE IF attr.ap = 1 THEN MAP_WRITE + MAP_USER
     ELSE IF attr.ap = 2 THEN 0
     ELSE MAP_USER)
  + (IF attr.pxn = 0 THEN MAP_EXEC ELSE 0)

\* kernel_mmu_get_flags with a non-null flags pointer. aborted: a load has
\* ended in a data abort and the function has not returned
kernel_mmu_get_flags(mem, pgd, virt_addr, load) ==
  LET pgd_entry == LoadEntry(mem, pgd, TableIndex(virt_addr, PGD_SHIFT, PGD_MASK))
      pud_entry == HighLoadEntry(mem, pgd_entry.page,
                     TableIndex(virt_addr, PUD_SHIFT, PUD_MASK), load)
      pmd_entry == HighLoadEntry(mem, pud_entry.page,
                     TableIndex(virt_addr, PMD_SHIFT, PMD_MASK), load)
      pte == HighLoadEntry(mem, pmd_entry.page,
               TableIndex(virt_addr, PTE_SHIFT, PTE_MASK), load)
  IN IF pgd_entry.type = PTE_TYPE_FAULT
     THEN [aborted |-> FALSE, ret |-> -EFAULT, flags |-> 0]
     ELSE IF load = "abort"
     THEN [aborted |-> TRUE, ret |-> EOK, flags |-> 0]
     ELSE IF pud_entry.type = PTE_TYPE_FAULT
     THEN [aborted |-> FALSE, ret |-> -EFAULT, flags |-> 0]
     ELSE IF pmd_entry.type = PTE_TYPE_FAULT
     THEN [aborted |-> FALSE, ret |-> -EFAULT, flags |-> 0]
     ELSE IF pte.type = PTE_TYPE_FAULT
     THEN [aborted |-> FALSE, ret |-> -EFAULT, flags |-> 0]
     ELSE [aborted |-> FALSE, ret |-> EOK, flags |-> pte_attr_to_flags(pte.attr)]

\* kernel_mmu_set_flags: the result of kernel_mmu_unmap is not looked at
kernel_mmu_set_flags(st, pgd, virt_addr, flags, load) ==
  Only({IF t.aborted THEN [st |-> st, aborted |-> TRUE, ret |-> EOK]
        ELSE IF t.ret < 0 THEN [st |-> st, aborted |-> FALSE, ret |-> t.ret]
        ELSE Only({IF u.aborted
                   THEN [st |-> [st EXCEPT !.pt_mem = u.mem], aborted |-> TRUE,
                         ret |-> EOK]
                   ELSE Only({[st |-> r.st, aborted |-> FALSE, ret |-> r.ret] :
                                r \in {kernel_mmu_map(
                                         [st EXCEPT !.pt_mem = u.mem], pgd,
                                         t.phys, virt_addr,
                                         KERNEL_HEAP_BLOCK_SIZE, flags)}}) :
                     u \in {kernel_mmu_unmap(st.pt_mem, pgd, virt_addr,
                                             KERNEL_HEAP_BLOCK_SIZE, load)}}) :
          t \in {kernel_mmu_translate(st.pt_mem, pgd, virt_addr, load)}})

NoMmuCalls ==
  [set_flags |-> [called |-> FALSE, aborted |-> FALSE, ret |-> EOK],
   get_flags |-> [called |-> FALSE, aborted |-> FALSE, ret |-> EOK,
                  flags |-> 0],
   unmap |-> [called |-> FALSE, aborted |-> FALSE, ret |-> EOK],
   map |-> [called |-> FALSE, phys |-> Addr(FALSE, 0, 0),
            virt |-> Addr(FALSE, 0, 0), size |-> 0, flags |-> 0,
            ret |-> EOK],
   translate |-> [called |-> FALSE, virt |-> Addr(FALSE, 0, 0),
                  aborted |-> FALSE, ret |-> EOK, phys |-> Addr(FALSE, 0, 0)]]

(***************************************************************************)
(* ai_memory.c: the tensor pool. The pool is the record of the fields of   *)
(* ai_mem_pool; free_blocks and free_block_sizes are the first             *)
(* free_block_count entries of the two arrays, and small_block_bitmap is   *)
(* the set of the bits that are 1. A size_t counter is kept as the integer *)
(* the code computes; below zero it stands for the value wrapped to        *)
(* 2^64 + used_size.                                                       *)
(***************************************************************************)
ZeroPool ==
  [total_size |-> 0, used_size |-> 0, free_blocks |-> <<>>,
   free_block_sizes |-> <<>>, small_block_pool |-> NULL,
   small_block_bitmap |-> {}, small_block_count |-> 0, allocations |-> 0,
   deallocations |-> 0, peak_usage |-> 0]

\* the state that the functions of ai_memory.c work on: the block map of the
\* kernel heap, the pool, the tensor descriptors by address, the contents
\* written to data regions, and handed: the regions that ai_memory_alloc
\* returned and that were not passed to ai_memory_free since, by address
AiMachine ==
  [entries |-> entries, heap_oob |-> heap_oob, pool |-> ai_mem_pool,
   tensors |-> ai_tensors, data |-> ai_data, handed |-> ai_handed]

ai_kmalloc(am, size) ==
  Only({Res([am EXCEPT !.entries = r.entries, !.heap_oob = @ \cup r.oob],
            r.ret) :
          r \in {kmalloc(am.entries, heap_total, Bytes(size))}})

ai_kfree(am, ptr) ==
  [am EXCEPT !.entries = kfree(am.entries, heap_total, ptr)]

\* a > b for two size_t counters
SizeGreater(a, b) ==
  IF a < 0 THEN (b >= 0 \/ a > b) ELSE (b >= 0 /\ a > b)

\* used_size += n; allocations++; peak_usage follows
CountAllocation(pool, n) ==
  [pool EXCEPT !.used_size = @ + n,
               !.allocations = @ + 1,
               !.peak_usage = IF SizeGreater(pool.used_size + n, @)
                              THEN pool.used_size + n ELSE @]

\* used_size -= n; deallocations++
CountDeallocation(pool, n) ==
  [pool EXCEPT !.used_size = @ - n, !.deallocations = @ + 1]

ai_memory_get_optimal_alignment(dtype) ==
  IF dtype \in {TENSOR_TYPE_INT8, TENSOR_TYPE_INT16, TENSOR_TYPE_FLOAT16}
  THEN 16
  ELSE IF dtype \in {TENSOR_TYPE_INT32, TENSOR_TYPE_FLOAT32} THEN 32
  ELSE 8

ai_tensor_get_elem_size(dtype) ==
  IF dtype = TENSOR_TYPE_INT8 THEN 1
  ELSE IF dtype \in {TENSOR_TYPE_INT16, TENSOR_TYPE_FLOAT16} THEN 2
  ELSE IF dtype \in {TENSOR_TYPE_INT32, TENSOR_TYPE_FLOAT32} THEN 4
  ELSE 0

\* (addr + alignment - 1) & ~(alignment - 1), alignment a power of two
align_pointer(ptr, alignment) ==
  ((ptr + alignment - 1) \div alignment) * alignment

\* the lowest index whose bit is 0, or -1
FirstFreeSmallBlock(pool) ==
  IF \E i \in 0..(pool.small_block_count - 1) : i \notin pool.small_block_bitmap
  THEN CHOOSE i \in 0..(pool.small_block_count - 1) :
         /\ i \notin pool.small_block_bitmap
         /\ \A j \in 0..(i - 1) : j \in pool.small_block_bitmap
  ELSE -1

alloc_small_block(pool, size) ==
  Only({IF i < 0 THEN Res(pool, NULL)
        ELSE Res(CountAllocation(
                   [pool EXCEPT !.small_block_bitmap = @ \cup {i}],
                   AI_MEMORY_MIN_BLOCK_SIZE),
                 pool.small_block_pool + (i * AI_MEMORY_MIN_BLOCK_SIZE)) :
          i \in {FirstFreeSmallBlock(pool)}})

free_small_block(pool, ptr) ==
  LET pool_start == pool.small_block_pool
      pool_end == pool_start + (pool.small_block_count * AI_MEMORY_MIN_BLOCK_SIZE)
      block_idx == (ptr - pool_start) \div AI_MEMORY_MIN_BLOCK_SIZE
  IN IF ptr < pool_start \/ ptr >= pool_end THEN Res(pool, -EINVARG)
     ELSE IF block_idx \notin pool.small_block_bitmap THEN Res(pool, -EINVARG)
     ELSE Res(CountDeallocation(
                [pool EXCEPT !.small_block_bitmap = @ \ {block_idx}],
                AI_MEMORY_MIN_BLOCK_SIZE),
              EOK)

\* alignment_overhead of free block i (from 0) for an alignment
AlignmentOverhead(pool, i, alignment) ==
  align_pointer(pool.free_blocks[i + 1], alignment) - pool.free_blocks[i + 1]

\* the loop with the first block large enough taken
FirstFitLoop(pool, size, alignment, i, best_idx) ==
  IF \E j \in 0..(Len(pool.free_blocks) - 1) :
       pool.free_block_sizes[j + 1] >= size + AlignmentOverhead(pool, j, alignment)
  THEN CHOOSE j \in 0..(Len(pool.free_blocks) - 1) :
         /\ pool.free_block_sizes[j + 1] >= size + AlignmentOverhead(pool, j, alignment)
         /\ \A k \in 0..(j - 1) :
              pool.free_block_sizes[k + 1] < size + AlignmentOverhead(pool, k, alignment)
  ELSE -1

\* the best-fit loop of ai_memory_alloc from index i on; best_idx = -1
\* stands for (size_t)-1, and then best_size is (size_t)-1 too
RECURSIVE BestFitLoop(_, _, _, _, _)
BestFitLoop(pool, size, alignment, i, best_idx) ==
  IF i >= Len(pool.free_blocks) THEN best_idx
  ELSE IF /\ pool.free_block_sizes[i + 1]
               >= size + AlignmentOverhead(pool, i, alignment)
          /\ (best_idx = -1
                \/ pool.free_block_sizes[i + 1] < pool.free_block_sizes[best_idx + 1])
       THEN BestFitLoop(pool, size, alignment, i + 1, i)
       ELSE BestFitLoop(pool, size, alignment, i + 1, best_idx)

\* the sequence without its element at index i (from 0)
RemoveAt(s, i) == SubSeq(s, 1, i) \o SubSeq(s, i + 2, Len(s))

\* ai_memory_alloc when a free block was found: split it or use it whole
TakeFreeBlock(pool, best_idx, size, alignment) ==
  LET block == pool.free_blocks[best_idx + 1]
      block_size == pool.free_block_sizes[best_idx + 1]
      aligned_block == align_pointer(block, alignment)
      alignment_overhead == aligned_block - block
      remaining_size == block_size - (size + alignment_overhead)
  IN IF remaining_size >= AI_MEMORY_MIN_BLOCK_SIZE
     THEN Res(CountAllocation(
                [pool EXCEPT !.free_blocks[best_idx + 1] = aligned_block + size,
                             !.free_block_sizes[best_idx + 1] = remaining_size],
                size + alignment_overhead),
              aligned_block)
     ELSE Res(CountAllocation(
                [pool EXCEPT !.free_blocks = RemoveAt(@, best_idx),
                             !.free_block_sizes = RemoveAt(@, best_idx)],
                (block_size - alignment_overhead) + alignment_overhead),
              aligned_block)

\* ai_memory_alloc. served: where the region came from; best_idx: the free
\* block chosen; got: the bytes of the region from the returned pointer on
ai_memory_alloc(am, size, alignment) ==
  LET rounded == ((size + alignment - 1) \div alignment) * alignment
      none == [m |-> am, ret |-> NULL, served |-> "none", best_idx |-> -1]
  IN IF size = 0 THEN none
     ELSE IF rounded <= AI_MEMORY_MIN_BLOCK_SIZE
     THEN Only({[m |-> [am EXCEPT !.pool = r.m,
                                  !.handed = IF r.ret = NULL THEN @
                                             ELSE (r.ret :> rounded) @@ @],
                 ret |-> r.ret,
                 served |-> IF r.ret = NULL THEN "none" ELSE "small",
                 best_idx |-> -1] :
                  r \in {alloc_small_block(am.pool, rounded)}})
     ELSE Only({IF best_idx = -1
                THEN Only({IF k.ret = NULL
                           THEN [none EXCEPT !.m = k.m]
                           ELSE [m |-> [k.m EXCEPT
                                          !.pool = CountAllocation(@, rounded + alignment),
                                          !.handed = (align_pointer(k.ret, alignment)
                                                        :> rounded) @@ @],
                                 ret |-> align_pointer(k.ret, alignment),
                                 served |-> "system",
                                 best_idx |-> -1] :
                             k \in {ai_kmalloc(am, rounded + alignment)}})
                ELSE Only({[m |-> [am EXCEPT !.pool = r.m,
                                             !.handed = (r.ret :> rounded) @@ @],
                            ret |-> r.ret,
                            served |-> "free_list",
                            best_idx |-> best_idx] :
                             r \in {TakeFreeBlock(am.pool, best_idx, rounded,
                                                  alignment)}}) :
                  best_idx \in {BestFitLoop(am.pool, rounded, alignment, 0, -1)}})

\* ai_memory_free
ai_memory_free(am, ptr) ==
  IF ptr = NULL THEN Res(am, -EINVARG)
  ELSE Only({IF r.ret = EOK
             THEN Res([am EXCEPT !.pool = r.m,
                                 !.handed = Without(@, ptr)], EOK)
             ELSE IF Len(am.pool.free_blocks) < AI_MEMORY_MAX_BLOCKS
             THEN Res([am EXCEPT
                         !.pool = CountDeallocation(
                                    [@ EXCEPT !.free_blocks = Append(@, ptr),
                                              !.free_block_sizes =
                                                 Append(@, KERNEL_HEAP_BLOCK_SIZE)],
                                    KERNEL_HEAP_BLOCK_SIZE),
                         !.handed = Without(@, ptr)],
                      EOK)
             ELSE Res([ai_kfree(am, ptr) EXCEPT
                         !.pool = CountDeallocation(@, KERNEL_HEAP_BLOCK_SIZE),
                         !.handed = Without(@, ptr)],
                      EOK) :
               r \in {free_small_block(am.pool, ptr)}})

\* the loop of ai_memory_init that puts 64 KB blocks on the free list
RECURSIVE InitFreeBlocks(_, _, _)
InitFreeBlocks(am, i, num_blocks) ==
  IF i >= num_blocks THEN am
  ELSE Only({IF k.ret = NULL THEN k.m
             ELSE InitFreeBlocks(
                    [k.m EXCEPT !.pool.free_blocks = Append(@, k.ret),
                                !.pool.free_block_sizes = Append(@, AI_INIT_BLOCK_SIZE)],
                    i + 1, num_blocks) :
               k \in {ai_kmalloc(am, AI_INIT_BLOCK_SIZE)}})

\* ai_memory_init from the small block pool on: small_pool_size bytes at
\* small_block_pool
InitPool(am, small_pool_size, small_block_pool) ==
  LET remaining_size == REQUESTED_POOL_SIZE - small_pool_size
      num_blocks == IF remaining_size \div AI_INIT_BLOCK_SIZE > AI_MEMORY_MAX_BLOCKS - 1
                    THEN AI_MEMORY_MAX_BLOCKS - 1
                    ELSE remaining_size \div AI_INIT_BLOCK_SIZE
  IN Only({Res([b EXCEPT !.pool.total_size =
                           small_pool_size
                             + (Len(b.pool.free_blocks) * AI_INIT_BLOCK_SIZE)],
               EOK) :
             b \in {InitFreeBlocks(
                      [am EXCEPT !.pool.small_block_pool = small_block_pool,
                                 !.pool.small_block_count =
                                    small_pool_size \div AI_MEMORY_MIN_BLOCK_SIZE],
                      0, num_blocks)}})

ai_memory_init(am0) ==
  LET am == [am0 EXCEPT !.pool = [ZeroPool EXCEPT !.total_size = REQUESTED_POOL_SIZE]]
      small_pool_size ==
        ((REQUESTED_POOL_SIZE \div 4) \div KERNEL_HEAP_BLOCK_SIZE) * KERNEL_HEAP_BLOCK_SIZE
      bitmap_size ==
        (((small_pool_size \div AI_MEMORY_MIN_BLOCK_SIZE) + 63) \div 64) * 8
  IN Only({IF fb.ret = NULL THEN Res(fb.m, -ENOMEM)
           ELSE Only({IF fs.ret = NULL THEN Res(ai_kfree(fs.m, fb.ret), -ENOMEM)
                      ELSE Only({IF bm.ret = NULL
                                 THEN Res(ai_kfree(ai_kfree(bm.m, fs.ret), fb.ret),
                                          -ENOMEM)
                                 ELSE Only({IF sp.ret # NULL
                                            THEN InitPool(sp.m, small_pool_size, sp.ret)
                                            ELSE Only({IF sq.ret = NULL
                                                       THEN Res(ai_kfree(ai_kfree(ai_kfree(
                                                                  sq.m, bm.ret), fs.ret),
                                                                  fb.ret), -ENOMEM)
                                                       ELSE InitPool(sq.m,
                                                              KERNEL_HEAP_BLOCK_SIZE * 4,
                                                              sq.ret) :
                                                         sq \in {ai_kmalloc(sp.m,
                                                                   KERNEL_HEAP_BLOCK_SIZE * 4)}}) :
                                              sp \in {ai_kmalloc(bm.m, small_pool_size)}}) :
                                   bm \in {ai_kmalloc(fs.m, bitmap_size)}}) :
                        fs \in {ai_kmalloc(fb.m, AI_MEMORY_MAX_BLOCKS * 8)}}) :
             fb \in {ai_kmalloc(am, AI_MEMORY_MAX_BLOCKS * 8)}})

\* the product of the elements of a shape
RECURSIVE TotalElems(_)
TotalElems(shape) ==
  IF shape = <<>> THEN 1 ELSE Head(shape) * TotalElems(Tail(shape))

\* strides[ndim - 1] = 1 and strides[i] = strides[i + 1] * shape[i + 1]
RECURSIVE RowMajorStrides(_)
RowMajorStrides(shape) ==
  IF Len(shape) <= 1 THEN <<1>>
  ELSE <<TotalElems(Tail(shape))>> \o RowMajorStrides(Tail(shape))

\* calculate_strides on the tensor at address t
calculate_strides(am, t) ==
  IF t = NULL \/ am.tensors[t].shape_ptr = NULL \/ am.tensors[t].ndim = 0 THEN am
  ELSE Only({IF k.ret = NULL THEN k.m
             ELSE [k.m EXCEPT
                     !.tensors[t].strides_ptr = k.ret,
                     !.tensors[t].strides =
                        IF am.tensors[t].ndim = 1 THEN <<1>>
                        ELSE IF am.tensors[t].ndim = 2
                        THEN <<am.tensors[t].shape[2], 1>>
                        ELSE RowMajorStrides(am.tensors[t].shape)] :
               k \in {IF am.tensors[t].strides_ptr = NULL
                      THEN ai_kmalloc(am, am.tensors[t].ndim * 8)
                      ELSE Res(am, am.tensors[t].strides_ptr)}})

\* memset(tensor, 0, sizeof(tensor_t)); view_of is not a field of the
\* structure: it names the tensor that ai_tensor_view was given
ZeroTensor ==
  [data |-> NULL, shape_ptr |-> NULL, strides_ptr |-> NULL, shape |-> <<>>,
   strides |-> <<>>, ndim |-> 0, elem_size |-> 0, dtype |-> 0, layout |-> 0,
   flags |-> 0, view_of |-> NULL]

\* the contents of a data region: value in each of its first size bytes
Contents(size, value) == [size |-> size, value |-> value]

ai_tensor_create(am, shape, ndim, dtype, layout, flags) ==
  LET memory_size == TotalElems(shape) * ai_tensor_get_elem_size(dtype)
      alignment == IF HasFlag(flags, TENSOR_MEM_ALIGNED)
                   THEN ai_memory_get_optimal_alignment(dtype) ELSE 8
      none(m) == [m |-> m, ret |-> NULL, served |-> "none", best_idx |-> -1]
  IN IF ndim = 0 \/ dtype >= TENSOR_TYPE_COUNT THEN none(am)
     ELSE
     Only({IF t.ret = NULL THEN none(t.m)
      ELSE Only({IF sh.ret = NULL THEN none(ai_kfree(sh.m, t.ret))
       ELSE Only({IF st.ret = NULL
                  THEN none(ai_kfree(ai_kfree(st.m, sh.ret), t.ret))
        ELSE Only({IF d.ret = NULL
                   THEN none([ai_kfree(ai_kfree(ai_kfree(d.m, st.ret), sh.ret), t.ret)
                                EXCEPT !.tensors = Without(@, t.ret)])
                   ELSE [m |-> [d.m EXCEPT
                                  !.tensors[t.ret].data = d.ret,
                                  !.data = IF HasFlag(flags, TENSOR_MEM_ZEROED)
                                           THEN (d.ret :> Contents(memory_size, 0)) @@ @
                                           ELSE @],
                         ret |-> t.ret, served |-> d.served,
                         best_idx |-> d.best_idx] :
            d \in {ai_memory_alloc(
                     calculate_strides(
                       [st.m EXCEPT !.tensors =
                          (t.ret :> [ZeroTensor EXCEPT
                                       !.shape_ptr = sh.ret, !.shape = shape,
                                       !.strides_ptr = st.ret,
                                       !.strides = [i \in 1..ndim |-> 0],
                                       !.ndim = ndim, !.dtype = dtype,
                                       !.elem_size = ai_tensor_get_elem_size(dtype),
                                       !.layout = layout, !.flags = flags]) @@ @],
                       t.ret),
                     memory_size, alignment)}}) :
         st \in {ai_kmalloc(sh.m, ndim * 8)}}) :
        sh \in {ai_kmalloc(t.m, ndim * 8)}}) :
       t \in {ai_kmalloc(am, SIZEOF_TENSOR)}})

ai_tensor_destroy(am, tensor) ==
  IF tensor = NULL THEN Res(am, -EINVARG)
  ELSE Only({Only({Only({Res([ai_kfree(b, tensor) EXCEPT
                                !.tensors = Without(@, tensor)], EOK) :
                           b \in {IF am.tensors[tensor].strides_ptr # NULL
                                  THEN ai_kfree(a, am.tensors[tensor].strides_ptr)
                                  ELSE a}}) :
                     a \in {IF am.tensors[tensor].shape_ptr # NULL
                            THEN ai_kfree(f, am.tensors[tensor].shape_ptr)
                            ELSE f}}) :
               f \in {IF am.tensors[tensor].data # NULL
                      THEN ai_memory_free(am, am.tensors[tensor].data).m
                      ELSE am}})

\* ai_tensor_reshape without the reallocation of the shape and strides
\* arrays: a change of the number of dimensions is refused
ReshapeSameNdimOnly(am, tensor, new_shape, new_ndim) ==
  IF tensor = NULL \/ new_ndim = 0 THEN Res(am, -EINVARG)
  ELSE IF TotalElems(new_shape) # TotalElems(am.tensors[tensor].shape)
  THEN Res(am, -EINVARG)
  ELSE IF new_ndim # am.tensors[tensor].ndim THEN Res(am, -ENOMEM)
  ELSE Res(calculate_strides([am EXCEPT !.tensors[tensor].shape = new_shape],
                             tensor), EOK)

ai_tensor_reshape(am, tensor, new_shape, new_ndim) ==
  IF tensor = NULL \/ new_ndim = 0 THEN Res(am, -EINVARG)
  ELSE IF TotalElems(new_shape) # TotalElems(am.tensors[tensor].shape)
  THEN Res(am, -EINVARG)
  ELSE IF new_ndim = am.tensors[tensor].ndim
  THEN Res(calculate_strides([am EXCEPT !.tensors[tensor].shape = new_shape],
                             tensor), EOK)
  ELSE Only({IF sh.ret = NULL THEN Res(sh.m, -ENOMEM)
        ELSE Only({IF st.ret = NULL THEN Res(ai_kfree(st.m, sh.ret), -ENOMEM)
                   ELSE Res(calculate_strides(
                              [ai_kfree(ai_kfree(st.m, am.tensors[tensor].shape_ptr),
                                        am.tensors[tensor].strides_ptr)
                                 EXCEPT !.tensors[tensor].shape_ptr = sh.ret,
                                        !.tensors[tensor].strides_ptr = st.ret,
                                        !.tensors[tensor].strides =
                                           [i \in 1..new_ndim |-> 0],
                                        !.tensors[tensor].ndim = new_ndim,
                                        !.tensors[tensor].shape = new_shape],
                              tensor), EOK) :
                     st \in {ai_kmalloc(sh.m, new_ndim * 8)}}) :
          sh \in {ai_kmalloc(am, new_ndim * 8)}})

ai_tensor_set_layout(am, tensor, new_layout) ==
  IF tensor = NULL THEN Res(am, -EINVARG)
  ELSE IF am.tensors[tensor].layout = new_layout THEN Res(am, EOK)
  ELSE Res(calculate_strides([am EXCEPT !.tensors[tensor].layout = new_layout],
                             tensor), EOK)

\* sum of indices[i] * strides[i]
RECURSIVE ElementOffset(_, _)
ElementOffset(indices, strides) ==
  IF indices = <<>> THEN 0
  ELSE (Head(indices) * Head(strides)) + ElementOffset(Tail(indices), Tail(strides))

ai_tensor_view(am, tensor, start_indices, shape) ==
  IF tensor = NULL THEN Res(am, NULL)
  ELSE IF \E i \in 1..am.tensors[tensor].ndim :
            start_indices[i] + shape[i] > am.tensors[tensor].shape[i]
  THEN Res(am, NULL)
  ELSE Only({IF v.ret = NULL THEN Res(v.m, NULL)
        ELSE Only({IF sh.ret = NULL THEN Res(ai_kfree(sh.m, v.ret), NULL)
         ELSE Only({IF st.ret = NULL
                    THEN Res(ai_kfree(ai_kfree(st.m, sh.ret), v.ret), NULL)
                    ELSE Res([st.m EXCEPT !.tensors =
                                (v.ret :> [am.tensors[tensor] EXCEPT
                                             !.shape_ptr = sh.ret,
                                             !.strides_ptr = st.ret,
                                             !.shape = shape,
                                             !.data =
                                                @ + (ElementOffset(start_indices,
                                                       am.tensors[tensor].strides)
                                                     * am.tensors[tensor].elem_size),
                                             !.view_of = tensor]) @@ @],
                             v.ret) :
                      st \in {ai_kmalloc(sh.m, am.tensors[tensor].ndim * 8)}}) :
           sh \in {ai_kmalloc(v.m, am.tensors[tensor].ndim * 8)}}) :
          v \in {ai_kmalloc(am, SIZEOF_TENSOR)}})

ai_tensor_get_size(am, tensor) ==
  IF tensor = NULL THEN 0
  ELSE TotalElems(am.tensors[tensor].shape) * am.tensors[tensor].elem_size

\* ai_tensor_copy_data from a buffer of size bytes that each hold value
ai_tensor_copy_data(am, tensor, value, size) ==
  IF tensor = NULL THEN Res(am, -EINVARG)
  ELSE Res([am EXCEPT !.data =
              (am.tensors[tensor].data :>
                 Contents(IF size > ai_tensor_get_size(am, tensor)
                          THEN ai_tensor_get_size(am, tensor) ELSE size, value))
                @@ @],
           EOK)

NoAiCall ==
  [op |-> "none", tensor |-> NULL, ret |-> EOK, served |-> "none",
   best_idx |-> -1]

(***************************************************************************)
(* interrupt.c and timer.c                                                 *)
(***************************************************************************)
\* the statics of interrupt.c and timer.c, the enable bits of the GIC
\* distributor and the IRQ mask of the CPU as one value
Hw ==
  [interrupt_initialized |-> interrupt_initialized,
   interrupt_handlers |-> interrupt_handlers, timer |-> timer,
   gicd_enabled |-> gicd_enabled, daif_i |-> daif_i]

HwRes(hw, ret) == [hw |-> hw, ret |-> ret]

\* memset(interrupt_handlers, 0, ...); GICD_ICENABLER(i) = 0xFFFFFFFF for
\* the ids below MAX_INTERRUPT_HANDLERS
interrupt_init(hw) ==
  IF hw.interrupt_initialized THEN HwRes(hw, EOK)
  ELSE HwRes([hw EXCEPT
                !.interrupt_handlers =
                   [n \in 0..(MAX_INTERRUPT_HANDLERS - 1) |-> NoHandler],
                !.gicd_enabled =
                   {n \in hw.gicd_enabled : n >= MAX_INTERRUPT_HANDLERS},
                !.interrupt_initialized = TRUE], EOK)

\* interrupt_register_handler without the test of the slot
InterruptRegisterOverwrite(hw, interrupt_num, handler) ==
  IF ~hw.interrupt_initialized THEN HwRes(hw, -ENOTREADY)
  ELSE IF interrupt_num >= MAX_INTERRUPT_HANDLERS \/ handler = NoHandler
  THEN HwRes(hw, -EINVARG)
  ELSE HwRes([hw EXCEPT !.interrupt_handlers[interrupt_num] = handler], EOK)

interrupt_register_handler(hw, interrupt_num, handler) ==
  IF ~hw.interrupt_initialized THEN HwRes(hw, -ENOTREADY)
  ELSE IF interrupt_num >= MAX_INTERRUPT_HANDLERS \/ handler = NoHandler
  THEN HwRes(hw, -EINVARG)
  ELSE IF hw.interrupt_handlers[interrupt_num] # NoHandler
  THEN HwRes(hw, -EINUSE)
  ELSE HwRes([hw EXCEPT !.interrupt_handlers[interrupt_num] = handler], EOK)

interrupt_unregister_handler(hw, interrupt_num) ==
  IF ~hw.interrupt_initialized THEN HwRes(hw, -ENOTREADY)
  ELSE IF interrupt_num >= MAX_INTERRUPT_HANDLERS THEN HwRes(hw, -EINVARG)
  ELSE HwRes([hw EXCEPT !.interrupt_handlers[interrupt_num] = NoHandler], EOK)

interrupt_enable(hw, interrupt_num) ==
  IF ~hw.interrupt_initialized THEN HwRes(hw, -ENOTREADY)
  ELSE IF interrupt_num >= MAX_INTERRUPT_HANDLERS THEN HwRes(hw, -EINVARG)
  ELSE HwRes([hw EXCEPT !.gicd_enabled = @ \cup {interrupt_num}], EOK)

interrupt_disable(hw, interrupt_num) ==
  IF ~hw.interrupt_initialized THEN HwRes(hw, -ENOTREADY)
  ELSE IF interrupt_num >= MAX_INTERRUPT_HANDLERS THEN HwRes(hw, -EINVARG)
  ELSE HwRes([hw EXCEPT !.gicd_enabled = @ \ {interrupt_num}], EOK)

\* msr daifclr, #2
interrupt_enable_all(hw) ==
  IF ~hw.interrupt_initialized THEN HwRes(hw, -ENOTREADY)
  ELSE HwRes([hw EXCEPT !.daif_i = FALSE], EOK)

\* interrupt_disable_all without its msr instruction
InterruptDisableAllKeepsMask(hw) ==
  IF ~hw.interrupt_initialized THEN HwRes(hw, -ENOTREADY)
  ELSE HwRes(hw, EOK)

\* msr daifset, #2
interrupt_disable_all(hw) ==
  IF ~hw.interrupt_initialized THEN HwRes(hw, -ENOTREADY)
  ELSE HwRes([hw EXCEPT !.daif_i = TRUE], EOK)

\* timer_init without the registration of its handler
TimerInitAlone(hw) ==
  IF hw.timer.initialized THEN HwRes(hw, EOK)
  ELSE HwRes([hw EXCEPT !.timer.ctl = 0, !.timer.initialized = TRUE], EOK)

timer_init(hw) ==
  IF hw.timer.initialized THEN HwRes(hw, EOK)
  ELSE Only({IF r.ret # EOK THEN HwRes(r.hw, r.ret)
             ELSE HwRes([r.hw EXCEPT !.timer.ctl = 0,
                                     !.timer.initialized = TRUE], EOK) :
               r \in {interrupt_register_handler(hw, TIMER_IRQ,
                                                 "timer_irq_handler")}})

timer_register_handler(hw, handler) ==
  IF ~hw.timer.initialized THEN HwRes(hw, -ENOTREADY)
  ELSE HwRes([hw EXCEPT !.timer.handler = handler], EOK)

\* the interval itself is not part of this state
timer_set_interval(hw, ms) ==
  IF ~hw.timer.initialized THEN HwRes(hw, -ENOTREADY)
  ELSE IF ms = 0 THEN HwRes(hw, -EINVARG)
  ELSE HwRes([hw EXCEPT !.timer.ctl = 0], EOK)

\* write_cntp_ctl_el0(1); msr daifclr, #2; interrupt_enable(TIMER_IRQ), whose
\* result is not looked at
timer_enable(hw) ==
  IF ~hw.timer.initialized THEN HwRes(hw, -ENOTREADY)
  ELSE HwRes(interrupt_enable([hw EXCEPT !.timer.ctl = 1, !.daif_i = FALSE],
                              TIMER_IRQ).hw, EOK)

timer_disable(hw) ==
  IF ~hw.timer.initialized THEN HwRes(hw, -ENOTREADY)
  ELSE HwRes(interrupt_disable([hw EXCEPT !.timer.ctl = 0], TIMER_IRQ).hw, EOK)

scheduler_init(hw) ==
  Only({IF r1.ret < 0 THEN r1
        ELSE Only({IF r2.ret < 0 THEN r2
                   ELSE Only({IF r3.ret < 0 THEN r3 ELSE HwRes(r3.hw, EOK) :
                                r3 \in {timer_set_interval(r2.hw,
                                                           SCHEDULER_TICKS_MS)}}) :
                     r2 \in {timer_register_handler(r1.hw,
                                                    "scheduler_timer_handler")}}) :
          r1 \in {timer_init(hw)}})

\* scheduler_start with its four steps; scheduler_start(m) is steps 3 and 4
\* and the first line of the undoing
SchedulerStartSteps(m, hw) ==
  Only({IF e1.ret < 0 THEN [m |-> m, hw |-> e1.hw, ret |-> e1.ret]
        ELSE Only({IF e2.ret < 0
                   THEN [m |-> m, hw |-> timer_disable(e2.hw).hw, ret |-> e2.ret]
                   ELSE Only({IF r.ret < 0
                              THEN [m |-> r.m,
                                    hw |-> interrupt_disable_all(
                                             timer_disable(e2.hw).hw).hw,
                                    ret |-> r.ret]
                              ELSE [m |-> r.m, hw |-> e2.hw, ret |-> EOK] :
                                r \in {scheduler_start(m)}}) :
                     e2 \in {interrupt_enable_all(e1.hw)}}) :
          e1 \in {timer_enable(hw)}})

\* the handler the timer calls: the scheduler's, or one that returns EOK
CallTimerHandler(handler, m) ==
  IF handler = "scheduler_timer_handler" THEN scheduler_timer_handler(m)
  ELSE Res(m, EOK)

\* timer_ticks and the compare value are not part of this state
timer_irq_handler(m, hw) ==
  IF hw.timer.handler # NoHandler THEN CallTimerHandler(hw.timer.handler, m)
  ELSE Res(m, EOK)

\* the handler of a slot: the timer's, or one that returns EOK
CallInterruptHandler(handler, m, hw) ==
  IF handler = "timer_irq_handler" THEN timer_irq_handler(m, hw)
  ELSE Res(m, EOK)

\* irq_handler with the value it reads from GICC_IAR. eoir: its writes to
\* GICC_EOIR. A handler that switches tasks leaves through
\* task_restore_context and does not come back to the line after the call
irq_handler(m, hw, iar) ==
  IF ~hw.interrupt_initialized
  THEN [m |-> m, ret |-> -ENOTREADY, eoir |-> <<>>]
  ELSE IF iar % GICC_IAR_ID_MOD >= GIC_SPECIAL_ID
  THEN [m |-> m, ret |-> EOK, eoir |-> <<>>]
  ELSE Only({IF r.m.switched # NULL
             THEN [m |-> r.m, ret |-> EOK, eoir |-> <<>>]
             ELSE [m |-> r.m, ret |-> r.ret, eoir |-> <<iar>>] :
               r \in {IF hw.interrupt_handlers[iar % GICC_IAR_ID_MOD] # NoHandler
                      THEN CallInterruptHandler(
                             hw.interrupt_handlers[iar % GICC_IAR_ID_MOD], m, hw)
                      ELSE Res(m, EOK)}})

(***************************************************************************)
(* kernel_main: from the entry with the pointer the bootloader passed to   *)
(* the start of the scheduler, one call of kernel_main at a time           *)
(***************************************************************************)
\* the address of kernel_process_test and of user_process_test in the
\* kernel text
kernel_process_test == 8
user_process_test == 16

\* kheap_init: kernel_heap_table.total for a RAM size
kheap_init(ram_size) ==
  LET target_heap_size == ram_size \div 5
      clamped == IF target_heap_size < MIN_HEAP_SIZE THEN MIN_HEAP_SIZE
                 ELSE IF target_heap_size > MAX_HEAP_SIZE THEN MAX_HEAP_SIZE
                 ELSE target_heap_size
  IN clamped \div KERNEL_HEAP_BLOCK_SIZE

\* the memset of the test and its read back are not part of this state
memory_test_kernel_heap(am) ==
  Only({Only({Only({
    IF small1.ret = NULL \/ small2.ret = NULL \/ small3.ret = NULL
    THEN Res(small3.m, -ENOMEM)
    ELSE Only({IF large.ret = NULL THEN Res(large.m, -ENOMEM)
               ELSE Only({IF realloc.ret = NULL THEN Res(realloc.m, -ENOMEM)
                          ELSE Res(ai_kfree(realloc.m, realloc.ret), EOK) :
                            realloc \in {ai_kmalloc(ai_kfree(large.m, large.ret),
                                                    128)}}) :
                 large \in {ai_kmalloc(
                              ai_kfree(ai_kfree(ai_kfree(small3.m, small1.ret),
                                                small2.ret), small3.ret),
                              8196)}}) :
      small3 \in {ai_kmalloc(small2.m, 256)}}) :
      small2 \in {ai_kmalloc(small1.m, 128)}}) :
      small1 \in {ai_kmalloc(am, 64)}})

memory_test_ai_memory(am) ==
  Only({IF tensor1d.ret = NULL THEN Res(tensor1d.m, -ENOMEM)
        ELSE ai_tensor_destroy(tensor1d.m, tensor1d.ret) :
          tensor1d \in {ai_tensor_create(am, <<4>>, 1, TENSOR_TYPE_FLOAT32,
                                         TENSOR_LAYOUT_ROW_MAJOR,
                                         TENSOR_MEM_ZEROED)}})

memory_run_tests(am) ==
  Only({IF res.ret # EOK THEN res ELSE memory_test_ai_memory(res.m) :
          res \in {memory_test_kernel_heap(am)}})

\* interrupt_init, syscall_init (svc_init is given a handler and returns
\* EOK), scheduler_init
process_management_init(hw, table) ==
  Only({IF r1.ret < 0 THEN [hw |-> r1.hw, table |-> table, ret |-> r1.ret]
        ELSE Only({[hw |-> r3.hw, table |-> syscall_init(table),
                    ret |-> IF r3.ret < 0 THEN r3.ret ELSE EOK] :
                     r3 \in {scheduler_init(r1.hw)}}) :
          r1 \in {interrupt_init(hw)}})

\* create_kernel_process and create_user_process: both store 0x305 in
\* spsr_el1, which is not part of this state
create_process(m, entry_point) ==
  Only({IF r.ret < 0 THEN r
        ELSE Res([r.m EXCEPT
                    !.tasks[r.m.procs[r.m.process_table[r.ret]].task].pc =
                       entry_point,
                    !.tasks[r.m.procs[r.m.process_table[r.ret]].task].state =
                       TASK_STATE_READY], r.ret) :
          r \in {process_create(m, Bytes(8))}})

\* a scheduler_start that runs the first task leaves through
\* task_restore_context: ret = EOK stands for a call that does not return
process_management_start(m, hw) == SchedulerStartSteps(m, hw)

\* no call yet
NoIrqCall ==
  [op |-> "none", num |-> 0, handler |-> NoHandler, ret |-> EOK,
   eoir |-> <<>>]

\* kernel_main(NULL). present: the pointer is not NULL; magic and ram_size:
\* what a load at the pointer's offsets 0 and 16 finds
(***************************************************************************)
(* mmu.c                                                                   *)
(*                                                                         *)
(* An address is a page number and a byte offset in the page:              *)
(* Va(page, off) is page * PAGE_SIZE + off.  A block or page entry of a    *)
(* translation table is its type, the page number of its output address    *)
(* and its attribute bits; a table entry holds what its address field      *)
(* points to: the name of a level 2 table, or the index k of               *)
(* level3_tables[k].                                                       *)
(***************************************************************************)
\* A 64-bit value: its four 16-bit parts, w3 the highest
WordOf(n) == [w3 |-> 0, w2 |-> 0, w1 |-> n \div UINT16_MOD, w0 |-> n % UINT16_MOD]
ZeroWord == WordOf(0)
\* a + n modulo 2^64, for 0 <= n < 2^31
WordAdd(a, n) ==
  [w0 |-> (a.w0 + (n % UINT16_MOD)) % UINT16_MOD,
   w1 |-> (a.w1 + (n \div UINT16_MOD) + ((a.w0 + (n % UINT16_MOD)) \div UINT16_MOD))
            % UINT16_MOD,
   w2 |-> (a.w2 + ((a.w1 + (n \div UINT16_MOD)
                      + ((a.w0 + (n % UINT16_MOD)) \div UINT16_MOD)) \div UINT16_MOD))
            % UINT16_MOD,
   w3 |-> (a.w3 + ((a.w2 + ((a.w1 + (n \div UINT16_MOD)
                      + ((a.w0 + (n % UINT16_MOD)) \div UINT16_MOD)) \div UINT16_MOD))
                    \div UINT16_MOD)) % UINT16_MOD]
\* (int)w: the low 32 bits, read as a two's complement number
IntOfWord(w) ==
  IF w.w1 < UINT16_MOD \div 2 THEN (w.w1 * UINT16_MOD) + w.w0
  ELSE ((w.w1 - UINT16_MOD) * UINT16_MOD) + w.w0
\* (reg_t)i for an int i: the sign is extended to 64 bits
RegOfInt(i) ==
  IF i >= 0 THEN WordOf(i)
  ELSE [w3 |-> UINT16_MOD - 1, w2 |-> UINT16_MOD - 1,
        w1 |-> ((i \div UINT16_MOD) + UINT16_MOD) % UINT16_MOD, w0 |-> i % UINT16_MOD]

\* the address a pointer of the heap stands for, the heap starting at saddr
AddressOf(saddr, ptr) ==
  IF ptr = NULL THEN ZeroWord ELSE WordAdd(saddr, ptr - HeapBase)

NoSvcCall == [called |-> NoHandler, result |-> EOK, x0 |-> ZeroWord]

\* syscall_init ends with svc_init(syscall_handler)
global_svc_handler(table) ==
  IF table[SYSCALL_PRINT_STRING] = NoHandler THEN NoHandler
  ELSE "syscall_handler"

\* svc_c_handler: the state it leaves, the int it returns, the handler that
\* was called and the x0 of the frame.  The int that syscall_process_malloc
\* returns is (int)(uint64_t)ptr.
svc_c_handler(m, table, saddr, svc_num, arg1) ==
  IF global_svc_handler(table) = NoHandler
  THEN [m |-> m, ret |-> -EINVSYSCALL, called |-> NoHandler,
        x0 |-> RegOfInt(-EINVSYSCALL)]
  ELSE Only({Only({[m |-> r.m, ret |-> result, called |-> r.called,
                    x0 |-> RegOfInt(result)] :
                     result \in {IF r.called = "syscall_process_malloc"
                                 THEN IntOfWord(AddressOf(saddr, r.ret))
                                 ELSE r.ret}}) :
               r \in {syscall_handler(m, table, svc_num, arg1)}})

Va(page, off) == [page |-> page, off |-> off]

\* (addr >> 30) & 0x1FF, (addr >> 21) & 0x1FF, (addr >> 12) & 0x1FF
L1Idx(page) == (page \div PAGES_PER_GB) % NUM_ENTRIES_PER_TABLE
L2Idx(page) == (page \div PAGES_PER_BLOCK) % NUM_ENTRIES_PER_TABLE
L3Idx(page) == page % NUM_ENTRIES_PER_TABLE

ZeroDescriptor == [type |-> PTE_TYPE_FAULT, addr |-> 0, attr |-> NoAttr]
ZeroL1Entry == [type |-> PTE_TYPE_FAULT, table |-> "none"]
ZeroTable == [i \in 0..(NUM_ENTRIES_PER_TABLE - 1) |-> ZeroDescriptor]

\* the statics of mmu.c as the loader leaves them
ZeroTables ==
  [level1_table |-> [i \in 0..(NUM_ENTRIES_PER_TABLE - 1) |-> ZeroL1Entry],
   level2_ram_table |-> ZeroTable,
   level2_device_table |-> ZeroTable,
   level3_tables |-> [k \in 0..(NUM_LEVEL3_TABLES - 1) |-> ZeroTable],
   next_l3_table |-> 0]

create_level1_table_entry(table_addr) ==
  [type |-> PTE_TYPE_TABLE, table |-> table_addr]

\* create_level1_table_entry((uint64_t)l3_table) stored in a level 2 table,
\* l3_table being level3_tables[k]
Level3TableEntry(k) == [type |-> PTE_TYPE_TABLE, addr |-> k, attr |-> NoAttr]

\* access_perm and shareable are or-ed in as they were masked out of attrs
create_level2_block_entry(phys_page, attr_index, access_perm, shareable, execute) ==
  [type |-> PTE_TYPE_BLOCK, addr |-> phys_page,
   attr |-> [af |-> 1, sh |-> shareable, ap |-> access_perm,
             indx |-> attr_index, uxn |-> IF execute THEN 0 ELSE 1,
             pxn |-> IF execute THEN 0 ELSE 1]]

create_level3_page_entry(phys_page, attr_index, access_perm, shareable, execute) ==
  [type |-> PTE_TYPE_PAGE, addr |-> phys_page,
   attr |-> [af |-> 1, sh |-> shareable, ap |-> access_perm,
             indx |-> attr_index, uxn |-> IF execute THEN 0 ELSE 1,
             pxn |-> IF execute THEN 0 ELSE 1]]

\* (attrs >> 2) & 0x7, attrs & 0x300, attrs & 0xC00
AttrIndexOf(attrs) == (attrs \div 4) % 8
AccessPermOf(attrs) == ((attrs \div 256) % 4) * 256
ShareableOf(attrs) == ((attrs \div 1024) % 4) * 1024
\* !(attrs & (PTE_ATTR_UXN | PTE_ATTR_PXN)): bits 54 and 53, which no attrs
\* below 2^31 has
ExecuteOf(attrs) == TRUE

init_level1_table(T) ==
  [T EXCEPT !.level1_table =
     [i \in 0..(NUM_ENTRIES_PER_TABLE - 1) |->
        \* the device entry is written after the RAM entry
        IF i = L1Idx(PHYS_DEVICE_START)
          THEN create_level1_table_entry("level2_device_table")
        ELSE IF i = L1Idx(PHYS_RAM_START)
          THEN create_level1_table_entry("level2_ram_table")
        ELSE ZeroL1Entry]]

\* for (addr = start; addr < start + size; addr += 0x200000)
\*   table[(addr >> 21) & 0x1FF] = the block entry of addr;
\* of the addresses that share an index the last one written stays
InitLevel2Table(start, size, attr_index, shareable, execute) ==
  [i \in 0..(NUM_ENTRIES_PER_TABLE - 1) |->
     Only({IF written = {} THEN ZeroDescriptor
           ELSE create_level2_block_entry(
                  start + (PAGES_PER_BLOCK *
                    (CHOOSE b \in written : \A c \in written : c <= b)),
                  attr_index, PTE_ATTR_AP_RW_EL1, shareable, execute) :
           written \in {{b \in 0..((size \div PAGES_PER_BLOCK) - 1) :
                           L2Idx(start + (b * PAGES_PER_BLOCK)) = i}}})]

init_level2_ram_table(T) ==
  [T EXCEPT !.level2_ram_table =
     InitLevel2Table(PHYS_RAM_START, PHYS_RAM_SIZE, MEMORY_ATTR_NORMAL_WB,
                     PTE_ATTR_SH_INNER * 256, TRUE)]

init_level2_device_table(T) ==
  [T EXCEPT !.level2_device_table =
     InitLevel2Table(PHYS_DEVICE_START, PHYS_DEVICE_SIZE,
                     MEMORY_ATTR_DEVICE_nGnRnE, 0, FALSE)]

mmu_setup_initial_mappings(T) ==
  init_level2_device_table(init_level2_ram_table(init_level1_table(T)))

\* the register writes of mmu_init do not reach the tables
mmu_init(T) == mmu_setup_initial_mappings(T)

\* size is in bytes; vaddr and paddr are page numbers of aligned addresses
can_use_large_page(vaddr, paddr, size, page_size) ==
  IF (vaddr % (page_size \div PAGE_SIZE)) # 0
     \/ (paddr % (page_size \div PAGE_SIZE)) # 0
  THEN FALSE
  ELSE size >= page_size

Level2Table(T, name) ==
  IF name = "level2_ram_table" THEN T.level2_ram_table
  ELSE T.level2_device_table

\* l2_table[l2_idx] = entry
StoreLevel2(T, name, l2_idx, entry) ==
  IF name = "level2_ram_table"
  THEN [T EXCEPT !.level2_ram_table[l2_idx] = entry]
  ELSE [T EXCEPT !.level2_device_table[l2_idx] = entry]

\* the table it returns is level3_tables[table]; table = -1 stands for NULL
get_or_create_level3_table(T, l2_entry) ==
  IF l2_entry.type = PTE_TYPE_TABLE THEN [T |-> T, table |-> l2_entry.addr]
  ELSE IF l2_entry.type # 0 THEN [T |-> T, table |-> -1]
  ELSE IF T.next_l3_table >= NUM_LEVEL3_TABLES THEN [T |-> T, table |-> -1]
  ELSE [T |-> [T EXCEPT !.next_l3_table = @ + 1,
                        !.level3_tables[T.next_l3_table] = ZeroTable],
        table |-> T.next_l3_table]

\* the loop of mmu_map; remaining is end_addr - curr_vaddr in bytes, and
\* turns is the number of turns the loop is followed for: cut says that it
\* was left before its end
RECURSIVE MmuMapLoop(_, _, _, _, _, _)
MmuMapLoop(T, curr_vaddr, curr_paddr, remaining, attrs, turns) ==
  IF remaining <= 0 THEN [T |-> T, ret |-> EOK, cut |-> FALSE]
  ELSE IF turns = 0 THEN [T |-> T, ret |-> EOK, cut |-> TRUE]
  ELSE IF T.level1_table[L1Idx(curr_vaddr)].type # PTE_TYPE_TABLE
    THEN [T |-> T, ret |-> -EINVAL, cut |-> FALSE]
  ELSE IF can_use_large_page(curr_vaddr, curr_paddr, remaining,
                             LARGE_PAGE_SIZE)
    THEN MmuMapLoop(
           StoreLevel2(T, T.level1_table[L1Idx(curr_vaddr)].table,
                       L2Idx(curr_vaddr),
                       create_level2_block_entry(
                         curr_paddr, AttrIndexOf(attrs), AccessPermOf(attrs),
                         ShareableOf(attrs), ExecuteOf(attrs))),
           curr_vaddr + PAGES_PER_BLOCK, curr_paddr + PAGES_PER_BLOCK,
           remaining - LARGE_PAGE_SIZE, attrs, turns - 1)
  ELSE Only({
    IF g.table < 0 THEN [T |-> g.T, ret |-> -ENOMEM, cut |-> FALSE]
    ELSE MmuMapLoop(
           [StoreLevel2(g.T, l2_name, L2Idx(curr_vaddr),
                        Level3TableEntry(g.table))
              EXCEPT !.level3_tables[g.table][L3Idx(curr_vaddr)] =
                create_level3_page_entry(
                  curr_paddr, AttrIndexOf(attrs), AccessPermOf(attrs),
                  ShareableOf(attrs), ExecuteOf(attrs))],
           curr_vaddr + 1, curr_paddr + 1, remaining - PAGE_SIZE, attrs,
           turns - 1) :
    g \in {get_or_create_level3_table(
             T, Level2Table(T, T.level1_table[L1Idx(curr_vaddr)].table)
                  [L2Idx(curr_vaddr)])},
    l2_name \in {T.level1_table[L1Idx(curr_vaddr)].table}})

mmu_map(T, vaddr, paddr, size, attrs) ==
  IF vaddr.off # 0 \/ paddr.off # 0
  THEN [T |-> T, ret |-> -EINVAL, cut |-> FALSE]
  ELSE MmuMapLoop(T, vaddr.page, paddr.page, size, attrs, MaxLoopTurns)

\* the loop of mmu_unmap; end_page and end_off are end_addr
RECURSIVE MmuUnmapLoop(_, _, _, _, _)
MmuUnmapLoop(T, curr_addr, end_page, end_off, turns) ==
  IF ~(curr_addr < end_page \/ (curr_addr = end_page /\ end_off > 0))
    THEN [T |-> T, ret |-> EOK, cut |-> FALSE]
  ELSE IF turns = 0 THEN [T |-> T, ret |-> EOK, cut |-> TRUE]
  ELSE IF T.level1_table[L1Idx(curr_addr)].type # PTE_TYPE_TABLE
    THEN MmuUnmapLoop(T, (curr_addr - (curr_addr % PAGES_PER_GB))
                         + PAGES_PER_GB, end_page, end_off, turns - 1)
  ELSE Only({
    IF l2_entry.type = PTE_TYPE_BLOCK
      THEN IF can_use_large_page(
                curr_addr, 0,
                ((end_page - curr_addr) * PAGE_SIZE) + end_off,
                LARGE_PAGE_SIZE)
           THEN MmuUnmapLoop(StoreLevel2(T, l2_name, L2Idx(curr_addr),
                                         ZeroDescriptor),
                             curr_addr + PAGES_PER_BLOCK, end_page, end_off, turns - 1)
           \* "WARNING: Skipping partial 2MB block unmap"
           ELSE MmuUnmapLoop(T, (curr_addr - (curr_addr % PAGES_PER_BLOCK))
                                + PAGES_PER_BLOCK, end_page, end_off, turns - 1)
    ELSE IF l2_entry.type # PTE_TYPE_TABLE
      THEN MmuUnmapLoop(T, (curr_addr - (curr_addr % PAGES_PER_BLOCK))
                           + PAGES_PER_BLOCK, end_page, end_off, turns - 1)
    ELSE MmuUnmapLoop(
           [T EXCEPT !.level3_tables[l2_entry.addr][L3Idx(curr_addr)] =
                       ZeroDescriptor],
           curr_addr + 1, end_page, end_off, turns - 1) :
    l2_entry \in {Level2Table(T, T.level1_table[L1Idx(curr_addr)].table)
                    [L2Idx(curr_addr)]},
    l2_name \in {T.level1_table[L1Idx(curr_addr)].table}})

mmu_unmap(T, vaddr, size) ==
  IF vaddr.off # 0 THEN [T |-> T, ret |-> -EINVAL, cut |-> FALSE]
  ELSE MmuUnmapLoop(T, vaddr.page, vaddr.page + (size \div PAGE_SIZE),
                    size % PAGE_SIZE, MaxLoopTurns)

\* Va(0, 0) is the address 0
mmu_virt_to_phys(T, vaddr) ==
  IF T.level1_table[L1Idx(vaddr.page)].type # PTE_TYPE_TABLE THEN Va(0, 0)
  ELSE Only({
    IF l2_entry.type = PTE_TYPE_BLOCK
      THEN Va(l2_entry.addr + (vaddr.page % PAGES_PER_BLOCK), vaddr.off)
    ELSE IF l2_entry.type # PTE_TYPE_TABLE THEN Va(0, 0)
    ELSE IF T.level3_tables[l2_entry.addr][L3Idx(vaddr.page)].type
              = PTE_TYPE_PAGE
      THEN Va(T.level3_tables[l2_entry.addr][L3Idx(vaddr.page)].addr,
              vaddr.off)
    ELSE Va(0, 0) :
    l2_entry \in {Level2Table(T, T.level1_table[L1Idx(vaddr.page)].table)
                    [L2Idx(vaddr.page)]}})

NoPagingCall == [name |-> "none", ret |-> EOK]

NoBootInfo == [present |-> FALSE, magic |-> 0, ram_size |-> 0]

\* kernel_main has not been entered
NotEntered ==
  [pc |-> "none", res |-> EOK, uart |-> <<>>, ram_size_loads |-> <<>>]

\* the state after kheap_init and before any process exists: the statics of
\* task.c, process.c and scheduler.c at their initialisers
BootState(total, counting) ==
  /\ heap_total = total
  /\ entries = [i \in 0..(total - 1) |-> HEAP_BLOCK_TABLE_ENTRY_FREE]
  /\ heap_oob = {}
  /\ held = [s \in 1..MaxAllocs |-> NoPtr]
  /\ hlast = "none"
  /\ tasks = EmptyFn
  /\ task_list_head = NULL
  /\ current_task = NULL
  /\ next_task_id = 0
  /\ procs = EmptyFn
  /\ process_table = [i \in Pids |-> NULL]
  /\ current_process = 0
  /\ scheduler_running = FALSE
  /\ mem_corrupt = FALSE
  /\ starve = [counting |-> counting, missed |-> EmptyFn]
  /\ kmalloc_frame = EmptyFn
  /\ terminate_frame = [active |-> FALSE, id |-> 0, process |-> NULL]
  /\ syscall_table = [n \in 0..(SYSCALL_MAX - 1) |-> NoHandler]
  /\ syscall_result = [num |-> 0, called |-> NoHandler, ret |-> EOK]
  /\ free_result = [process |-> NULL, ptr |-> NULL, ret |-> EOK]
  /\ interrupt_initialized = FALSE
  /\ interrupt_handlers = [n \in 0..(MAX_INTERRUPT_HANDLERS - 1) |-> NoHandler]
  /\ timer = [initialized |-> FALSE, handler |-> NoHandler, ctl |-> 0]
  /\ gicd_enabled = {}
  /\ gic_active = {}
  /\ daif_i = TRUE
  /\ irq_result = NoIrqCall
  /\ create_result = [called |-> FALSE, size |-> Bytes(0), ret |-> EOK]
  /\ kernel_pgd = NULL
  /\ pt_mem = EmptyFn
  /\ mmu_calls = NoMmuCalls
  /\ ai_mem_pool = ZeroPool
  /\ ai_tensors = EmptyFn
  /\ ai_data = EmptyFn
  /\ ai_handed = EmptyFn
  /\ ai_result = NoAiCall
  /\ boot_info = NoBootInfo
  /\ kernel_main_frame = NotEntered
  /\ mmu_tables = ZeroTables
  /\ mmu_result = NoPagingCall
  /\ heap_saddr = WordOf(HeapBase)
  /\ svc_frame = NoSvcCall

HeapInit == BootState(HeapTotal, FALSE)

KMalloc(size) ==
  /\ \E s \in 1..MaxAllocs : held[s] = NoPtr
  /\ \E r \in {kmalloc(entries, heap_total, size)} :
       /\ entries' = r.entries
       /\ heap_oob' = heap_oob \cup r.oob
       /\ held' = IF r.ret = NULL THEN held
                  ELSE [held EXCEPT ![FreeSlot] = [ptr |-> r.ret, size |-> size]]
       /\ hlast' = "kmalloc"
  /\ UNCHANGED <<heap_total, kernelVars, extVars>>

KFree(s) ==
  /\ held[s] # NoPtr
  /\ entries' = kfree(entries, heap_total, held[s].ptr)
  /\ held' = [held EXCEPT ![s] = NoPtr]
  /\ hlast' = "kfree"
  /\ UNCHANGED <<heap_total, heap_oob, kernelVars, extVars>>

HeapNext ==
  \/ \E size \in ReqSizes : KMalloc(size)
  \/ \E s \in 1..MaxAllocs : KFree(s)

HeapSpec == HeapInit /\ [][HeapNext]_vars

(***************************************************************************)
(* The kernel: any sequence of the calls of the process, task, scheduler   *)
(* and syscall interfaces. Each call runs to completion (one CPU, IRQs     *)
(* masked in the kernel).                                                  *)
(***************************************************************************)
Init == BootState(KHeapTotal, FALSE)

Occupied(m) == {p \in Pids : m.process_table[p] # NULL}

\* the state a call leaves. tick: the call is a timer tick taken while the
\* scheduler runs; starve.missed then counts, for each process, the ticks in
\* a row that did not switch to its main task, and any other call restarts
\* the count
InstallMachine(r, tick) ==
  /\ entries' = r.m.entries
  /\ heap_oob' = r.m.heap_oob
  /\ tasks' = r.m.tasks
  /\ task_list_head' = r.m.task_list_head
  /\ current_task' = r.m.current_task
  /\ next_task_id' = r.m.next_task_id
  /\ procs' = r.m.procs
  /\ process_table' = r.m.process_table
  /\ current_process' = r.m.current_process
  /\ scheduler_running' = r.m.scheduler_running
  /\ mem_corrupt' = r.m.mem_corrupt
  /\ starve' = IF ~starve.counting THEN starve
               ELSE [starve EXCEPT !.missed =
                       [p \in Occupied(r.m) |->
                          IF /\ tick
                             /\ p \in DOMAIN starve.missed
                             /\ r.m.switched # r.m.procs[r.m.process_table[p]].task
                          THEN IF starve.missed[p] < MaxTasks
                               THEN starve.missed[p] + 1 ELSE starve.missed[p]
                          ELSE 0]]
  /\ UNCHANGED <<heap_total, held, hlast>>

\* a call that runs to completion
Install(r, tick) ==
  /\ InstallMachine(r, tick)
  /\ UNCHANGED extVars

\* the program of create_kernel_process / create_user_process: 8 bytes
ProgramSizes == {Bytes(8)}
\* the size a process asks of PROCESS_MALLOC: one byte more than a block
UserSizes == {Bytes(KERNEL_HEAP_BLOCK_SIZE + 1)}
\* pid arguments: the slots in use, a free slot, and values >= MAX_PROCESSES
PidArgs == (0..MaxTasks) \cup {SYNAPSE_MAX_PROCESSES, UINT16_MOD - ENOENT}
\* argument vectors by the lengths strlen(argv[i]) + 1
ArgLens == UNION {[1..n -> {Bytes(2)}] : n \in 0..MaxArgc}

\* the records of a process other than its stack and its program
UserRecords(process) ==
  {i \in DOMAIN procs[process].allocations :
      /\ procs[process].allocations[i].ptr # procs[process].stack
      /\ procs[process].allocations[i].ptr # procs[process].ptr}

\* the pointers PROCESS_MALLOC returned and PROCESS_FREE has not released
UserPtrs ==
  UNION {{procs[p].allocations[i].ptr : i \in UserRecords(p)} : p \in DOMAIN procs}

ProcessCreate(size) ==
  /\ ~mem_corrupt
  /\ next_task_id < MaxTasks
  /\ Install(process_create(Machine, size), FALSE)

TimerTick ==
  /\ ~mem_corrupt
  /\ Install(scheduler_timer_handler(Machine), scheduler_running)

SchedulerStart ==
  /\ ~mem_corrupt
  /\ ~scheduler_running
  /\ Install(scheduler_start(Machine), FALSE)

ProcessSwitch(id) ==
  /\ ~mem_corrupt
  /\ Install(process_switch(Machine, id), FALSE)

ProcessTerminate(id) ==
  /\ ~mem_corrupt
  /\ Install(process_terminate(Machine, id), FALSE)

ProcessSetArguments(id, lens) ==
  /\ ~mem_corrupt
  /\ process_table[id] # NULL
  /\ Install(process_set_arguments(Machine, process_table[id], lens), FALSE)

\* process_malloc / process_free called by the kernel for a process
ProcessMalloc(id, size) ==
  /\ ~mem_corrupt
  /\ process_table[id] # NULL
  /\ Cardinality(UserRecords(process_table[id])) < MaxUserAllocs
  /\ Install(process_malloc(Machine, process_table[id], size), FALSE)

ProcessFree(id, ptr) ==
  /\ ~mem_corrupt
  /\ process_table[id] # NULL
  /\ Install(process_free(Machine, process_table[id], ptr), FALSE)

TaskSchedule ==
  /\ ~mem_corrupt
  /\ Install(task_schedule(Machine), FALSE)

TaskBlock ==
  /\ ~mem_corrupt
  /\ Install(task_block(Machine), FALSE)

TaskReturn ==
  /\ ~mem_corrupt
  /\ Install(task_return(Machine), FALSE)

TaskUnblock(task) ==
  /\ ~mem_corrupt
  /\ Install(task_unblock(Machine, task), FALSE)

\* the syscalls are made by the task that is executing
SyscallProcessExit ==
  /\ ~mem_corrupt
  /\ current_task # NULL
  /\ Install(syscall_process_exit(Machine), FALSE)

SyscallProcessMalloc(size) ==
  /\ ~mem_corrupt
  /\ current_task # NULL
  /\ process_current(Machine) # NULL =>
        Cardinality(UserRecords(process_current(Machine))) < MaxUserAllocs
  /\ Install(syscall_process_malloc(Machine, size), FALSE)

SyscallProcessFree(ptr) ==
  /\ ~mem_corrupt
  /\ current_task # NULL
  /\ Install(syscall_process_free(Machine, ptr), FALSE)

\* the task and scheduler interfaces, called in any order
Next ==
  \/ \E size \in ProgramSizes : ProcessCreate(size)
  \/ TimerTick
  \/ SchedulerStart
  \/ \E id \in PidArgs : ProcessSwitch(id)
  \/ \E id \in PidArgs : ProcessTerminate(id)
  \/ TaskSchedule
  \/ TaskBlock
  \/ TaskReturn
  \/ \E task \in DOMAIN tasks : TaskUnblock(task)
  \/ SyscallProcessExit

Spec == Init /\ [][Next]_vars

(***************************************************************************)
(* The memory of processes: processes are created, are given memory and   *)
(* arguments, give memory back and are terminated                          *)
(***************************************************************************)
ProcNext ==
  \/ \E size \in ProgramSizes : ProcessCreate(size)
  \/ \E id \in Occupied(Machine), size \in UserSizes : ProcessMalloc(id, size)
  \/ \E id \in Occupied(Machine), ptr \in UserPtrs : ProcessFree(id, ptr)
  \/ \E id \in Occupied(Machine), lens \in ArgLens : ProcessSetArguments(id, lens)
  \/ \E id \in PidArgs : ProcessTerminate(id)

ProcSpec == Init /\ [][ProcNext]_vars

(***************************************************************************)
(* The steady state of the scheduler: processes are created, the scheduler *)
(* is started, the timer ticks, processes are switched to, and the running *)
(* task allocates and frees; no task blocks or exits. The ticks that pass  *)
(* a process over are counted.                                             *)
(***************************************************************************)
SchedInit == BootState(KHeapTotal, TRUE)

SchedNext ==
  \/ \E size \in ProgramSizes : ProcessCreate(size)
  \/ SchedulerStart
  \/ TimerTick
  \/ \E id \in PidArgs : ProcessSwitch(id)
  \/ \E size \in UserSizes : SyscallProcessMalloc(size)
  \/ \E ptr \in UserPtrs : SyscallProcessFree(ptr)

SchedSpec == SchedInit /\ [][SchedNext]_vars

(***************************************************************************)
(* Heap properties                                                         *)
(***************************************************************************)
\* ceil(size / 4096): the number of blocks a request of size bytes needs
CeilBlocks(size) == size.q + (IF size.r > 0 THEN 1 ELSE 0)

\* the block-map entries of an allocation
AllocEntries(h) ==
  {i \in 0..(heap_total - 1) :
      i >= BlockOf(h.ptr) /\ i < BlockOf(h.ptr) + CeilBlocks(h.size)}

\* ents has a run of n consecutive FREE entries starting at b
FreeRunAt(ents, b, n) ==
  /\ b + n <= heap_total
  /\ \A i \in b..(b + n - 1) : heap_get_entry_type(ents[i]) = HEAP_BLOCK_TABLE_ENTRY_FREE

HasFreeRun(ents, n) == \E b \in 0..(heap_total - 1) : FreeRunAt(ents, b, n)

LowestFreeRun(ents, n) ==
  CHOOSE b \in 0..(heap_total - 1) :
    FreeRunAt(ents, b, n) /\ \A c \in 0..(b - 1) : ~FreeRunAt(ents, c, n)

AllFree == \A i \in 0..(heap_total - 1) : entries[i] = HEAP_BLOCK_TABLE_ENTRY_FREE

\* C5: kfree(p) of a live allocation leaves the block-map entries of every
\* other live allocation as they were.
C5_KfreeFrame ==
  [][\A s \in 1..MaxAllocs :
        KFree(s) =>
          \A t \in (1..MaxAllocs) \ {s} :
            held[t] # NoPtr =>
              \A i \in AllocEntries(held[t]) : entries'[i] = entries[i]]_vars

\* C6: every live allocation of n blocks occupies n consecutive TAKEN entries,
\* IS_FIRST on exactly the first, HAS_NEXT on all but the last.
C6_AllocShape ==
  \A s \in 1..MaxAllocs :
    held[s] # NoPtr =>
      LET b == BlockOf(held[s].ptr)
          n == CeilBlocks(held[s].size)
      IN /\ b + n <= heap_total
         /\ \A i \in b..(b + n - 1) :
              /\ heap_get_entry_type(entries[i]) = HEAP_BLOCK_TABLE_ENTRY_TAKEN
              /\ EntryIsFirst(entries[i]) <=> (i = b)
              /\ EntryHasNext(entries[i]) <=> (i < b + n - 1)

\* C7: kmalloc(size), size > 0, returns null and leaves the block map unchanged
\* when the heap has no run of ceil(size/4096) consecutive FREE blocks.
C7_NoRunFails ==
  [][\A size \in ReqSizes :
        (KMalloc(size) /\ ~HasFreeRun(entries, CeilBlocks(size)))
          => (kmalloc(entries, heap_total, size).ret = NULL /\ entries' = entries)]_vars

\* C8: once every pointer returned by kmalloc has been freed, the block map is
\* all FREE, no IS_FIRST or HAS_NEXT bit set.
C8_HeapConservation ==
  (\A s \in 1..MaxAllocs : held[s] = NoPtr) => AllFree

\* a kfree has released the last pointer the client held
C8_Witness ==
  /\ hlast = "kfree"
  /\ \A s \in 1..MaxAllocs : held[s] = NoPtr

\* C9: a successful kmalloc that needs n blocks returns the start of the
\* lowest-indexed run of n consecutive FREE blocks.
C9_FirstFit ==
  [][\A size \in ReqSizes :
        (KMalloc(size) /\ kmalloc(entries, heap_total, size).ret # NULL) =>
          LET n == CeilBlocks(size) IN
            /\ HasFreeRun(entries, n)
            /\ kmalloc(entries, heap_total, size).ret
                 = heap_block_to_address(HeapBase, LowestFreeRun(entries, n))]_vars

(***************************************************************************)
(* Task and scheduler properties                                           *)
(***************************************************************************)
MainTask(p) == procs[process_table[p]].task

\* C1: with the scheduler running and N >= 2 processes whose main tasks stay
\* READY or RUNNING, every window of N consecutive timer ticks switches to
\* each of the N tasks at least once: no process is passed over N ticks in a
\* row.
C1_Fairness ==
  LET occ == Occupied(Machine)
      N == Cardinality(occ)
  IN (/\ scheduler_running
      /\ N >= 2
      /\ \A p \in occ :
           tasks[MainTask(p)].state \in {TASK_STATE_READY, TASK_STATE_RUNNING})
       => \A p \in occ : starve.missed[p] < N

\* C2: at most one task has state RUNNING.
C2_OneRunning ==
  Cardinality({t \in DOMAIN tasks : tasks[t].state = TASK_STATE_RUNNING}) <= 1

\* the edges of the task state machine
TaskEdges ==
  {<<TASK_STATE_NEW, TASK_STATE_READY>>,
   <<TASK_STATE_READY, TASK_STATE_RUNNING>>,
   <<TASK_STATE_RUNNING, TASK_STATE_READY>>,
   <<TASK_STATE_RUNNING, TASK_STATE_BLOCKED>>,
   <<TASK_STATE_BLOCKED, TASK_STATE_READY>>,
   <<TASK_STATE_RUNNING, TASK_STATE_FINISHED>>}

\* C3: every change of a task's state made by an operation follows an edge of
\* the task state machine.
C3_StateMachine ==
  [][\A t \in (DOMAIN tasks) \cap (DOMAIN tasks') :
        tasks'[t].state # tasks[t].state =>
          <<tasks[t].state, tasks'[t].state>> \in TaskEdges]_vars

\* the tasks of the ring in the order of the next pointers, from task t
\* until the walk is back at start
RECURSIVE RingFrom(_, _)
RingFrom(t, start) ==
  <<t>> \o (IF tasks[t].next = start THEN << >> ELSE RingFrom(tasks[t].next, start))

\* the first READY task of a sequence of tasks, NULL when there is none
FirstReady(ring) ==
  LET at == {k \in 1..Len(ring) : tasks[ring[k]].state = TASK_STATE_READY}
  IN IF at = {} THEN NULL ELSE ring[CHOOSE k \in at : \A j \in at : k <= j]

\* C4: task_schedule() only switches to a task whose state is READY, the first
\* READY task met walking the ring from current.next; when no task is READY
\* it performs no switch and returns success if the current task is RUNNING
\* and NO_TASK otherwise, also when there is no current task.
C4_ScheduleReadyOnly ==
  [][TaskSchedule =>
       LET r == task_schedule(Machine)
           ready == {t \in DOMAIN tasks : tasks[t].state = TASK_STATE_READY}
       IN /\ r.m.switched # NULL =>
               /\ r.m.switched \in ready
               /\ current_task # NULL =>
                     r.m.switched = FirstReady(RingFrom(tasks[current_task].next,
                                                        tasks[current_task].next))
          /\ ready = {} =>
               /\ r.m.switched = NULL
               /\ r.ret = IF /\ current_task # NULL
                             /\ tasks[current_task].state = TASK_STATE_RUNNING
                          THEN EOK ELSE -ENOTASK]_vars

(***************************************************************************)
(* Process properties                                                      *)
(***************************************************************************)
\* the heap blocks obtained for a process: those of its allocation records,
\* of argv and its strings, of its main task and of its header
OwnBlocks(process) ==
  LET proc == procs[process] IN
    UNION {AllocEntries(proc.allocations[i]) : i \in DOMAIN proc.allocations}
      \cup (IF proc.argv # NULL
            THEN {BlockOf(proc.argv)}
                   \cup {BlockOf(proc.argv_strings[k]) : k \in 1..proc.argc}
            ELSE {})
      \cup {BlockOf(proc.task), BlockOf(process)}

\* C10: process_terminate(pid) releases exactly that process's resources:
\* afterwards every heap block obtained for its allocation records, argv, main
\* task and header is FREE, its table slot is empty and its task is out of
\* the ring, while no heap block, allocation record, table slot or task of
\* another live process has changed.
C10_TerminateExact ==
  [][\A id \in Occupied(Machine) :
        ProcessTerminate(id) =>
          LET process == process_table[id]
              task == procs[process].task
          IN /\ \A i \in OwnBlocks(process) :
                   entries'[i] = HEAP_BLOCK_TABLE_ENTRY_FREE
             /\ process_table'[id] = NULL
             /\ task \notin DOMAIN tasks'
             /\ task_list_head' # task
             /\ \A t \in DOMAIN tasks' :
                   tasks'[t].next # task /\ tasks'[t].prev # task
             /\ \A other \in Occupied(Machine) \ {id} :
                   LET q == process_table[other] IN
                     /\ process_table'[other] = q
                     /\ q \in DOMAIN procs' /\ procs'[q] = procs[q]
                     /\ procs[q].task \in DOMAIN tasks'
                     /\ tasks'[procs[q].task].state = tasks[procs[q].task].state
                     /\ tasks'[procs[q].task].sp = tasks[procs[q].task].sp
                     /\ tasks'[procs[q].task].pc = tasks[procs[q].task].pc
                     /\ tasks'[procs[q].task].process = q
                     /\ \A i \in OwnBlocks(q) : entries'[i] = entries[i]]_vars

(***************************************************************************)
(* Syscall properties                                                      *)
(***************************************************************************)
\* C11: the PROCESS_EXIT syscall never returns to its caller: the call ends in
\* a switch to another task, and the calling task is out of the task table,
\* whatever other tasks exist (including when it was the only task).
C11_ExitNeverReturns ==
  [][SyscallProcessExit =>
       LET r == syscall_process_exit(Machine)
       IN /\ r.m.switched # NULL
          /\ r.m.switched # current_task
          /\ current_task \notin DOMAIN tasks']_vars

(***************************************************************************)
(* Preemption inside kmalloc. Tasks run with SPSR_EL1 = 0x305, the I bit   *)
(* clear, and kmalloc does not mask IRQs: a timer tick can be taken        *)
(* between any two instructions of heap_malloc_blocks. The tick saves the  *)
(* interrupted registers in the task (task_save_state) and the task        *)
(* resumes there when it is switched to again.                             *)
(***************************************************************************)
\* the size the test processes ask for: process_malloc(process_current(), 128)
TaskAllocSizes == {Bytes(128)}

\* the running task is not between the two halves of heap_malloc_blocks
OutsideKmalloc ==
  current_task \in DOMAIN kmalloc_frame
    => kmalloc_frame[current_task].pc = "returned"

\* the running task enters kmalloc(size) and runs heap_malloc_blocks up to the
\* result of heap_get_start_block
KmallocFind(size) ==
  /\ ~mem_corrupt
  /\ ~terminate_frame.active
  /\ current_task # NULL
  /\ current_task \notin DOMAIN kmalloc_frame
  /\ \E total_blocks \in {heap_align_value_to_upper(size).q} :
       \E start_block \in {heap_get_start_block(entries, heap_total, total_blocks)} :
         kmalloc_frame' =
           (current_task :>
              [pc |-> IF start_block < 0 THEN "returned" ELSE "found",
               start_block |-> start_block, total_blocks |-> total_blocks,
               ret |-> NULL]) @@ kmalloc_frame
  /\ UNCHANGED <<heapVars, clientVars, kernelVars, terminate_frame, extButPreempt>>

\* the running task goes on from there: heap_block_to_address,
\* heap_mark_blocks_taken and the return of the address
KmallocMark ==
  /\ ~mem_corrupt
  /\ ~terminate_frame.active
  /\ current_task # NULL
  /\ current_task \in DOMAIN kmalloc_frame
  /\ kmalloc_frame[current_task].pc = "found"
  /\ \E f \in {kmalloc_frame[current_task]} :
       /\ entries' = heap_mark_blocks_taken(entries, heap_total, f.start_block,
                                            f.total_blocks)
       /\ heap_oob' = heap_oob \cup MarkTakenOutOfTable(heap_total, f.start_block,
                                                       f.total_blocks)
       /\ kmalloc_frame' =
            [kmalloc_frame EXCEPT
               ![current_task].pc = "returned",
               ![current_task].ret = heap_block_to_address(HeapBase, f.start_block)]
  /\ UNCHANGED <<heap_total, clientVars, kernelVars, terminate_frame, extButPreempt>>

\* process_management_init creates the processes before the scheduler starts
BootProcessCreate(size) ==
  /\ ~scheduler_running
  /\ ProcessCreate(size)

\* task_block() is called by the running task from its own code
TaskBlockSelf ==
  /\ OutsideKmalloc
  /\ ~terminate_frame.active
  /\ TaskBlock

\* the running task calls process_terminate(process_current()->id), as the
\* test processes do at their end, and runs it up to and including
\* task_free(process->task). process_terminate does not mask IRQs.
TerminateEnter ==
  /\ ~mem_corrupt
  /\ ~terminate_frame.active
  /\ current_task # NULL
  /\ OutsideKmalloc
  /\ process_current(Machine) # NULL
  /\ \E process \in {process_current(Machine)} :
       /\ InstallMachine(Res(ProcessTerminateFree(Machine, process), EOK), FALSE)
       /\ terminate_frame' = [active |-> TRUE, id |-> procs[process].id,
                             process |-> process]
  /\ UNCHANGED <<kmalloc_frame, extButPreempt>>

\* the call goes on: process_table[id] = NULL, kfree(process), return
TerminateLeave ==
  /\ ~mem_corrupt
  /\ terminate_frame.active
  /\ InstallMachine(Res(ProcessTerminateClear(Machine, terminate_frame.id,
                                              terminate_frame.process), EOK),
                    FALSE)
  /\ terminate_frame' = [active |-> FALSE, id |-> 0, process |-> NULL]
  /\ UNCHANGED <<kmalloc_frame, extButPreempt>>

\* a timer tick taken outside process_terminate
PreemptTick ==
  /\ ~terminate_frame.active
  /\ TimerTick

\* a timer tick taken inside process_terminate, after task_free:
\* task_schedule_next_process reads proc->task->state of the process whose
\* slot is still set, from the memory kfree has released
TickInsideTerminate ==
  /\ ~mem_corrupt
  /\ scheduler_running
  /\ terminate_frame.active
  /\ mem_corrupt' = TRUE
  /\ UNCHANGED <<heapVars, clientVars, tasks, task_list_head, current_task,
                 next_task_id, procs, process_table, current_process,
                 scheduler_running, starve, extVars>>

PreemptNext ==
  \/ \E size \in ProgramSizes : BootProcessCreate(size)
  \/ SchedulerStart
  \/ PreemptTick
  \/ TaskBlockSelf
  \/ \E task \in DOMAIN tasks : TaskUnblock(task)
  \/ \E size \in TaskAllocSizes : KmallocFind(size)
  \/ KmallocMark
  \/ TerminateEnter
  \/ TerminateLeave
  \/ TickInsideTerminate

PreemptSpec == Init /\ [][PreemptNext]_vars

\* the heap blocks of the allocation a kmalloc call returned to task t
ReturnedBlocks(t) ==
  IF t \in DOMAIN kmalloc_frame /\ kmalloc_frame[t].ret # NULL
  THEN {i \in 0..(heap_total - 1) :
          /\ i >= BlockOf(kmalloc_frame[t].ret)
          /\ i < BlockOf(kmalloc_frame[t].ret) + kmalloc_frame[t].total_blocks}
  ELSE {}

\* C12: heap allocation is atomic with respect to preemption: when two tasks
\* call kmalloc and a timer tick switches tasks at any point inside one call,
\* the two calls never return overlapping block ranges.
C12_KmallocAtomic ==
  \A t, u \in DOMAIN tasks :
    t # u => ReturnedBlocks(t) \cap ReturnedBlocks(u) = {}

\* C13: process_terminate is atomic with respect to the timer tick: at every
\* point where a tick can be delivered, each occupied process-table slot
\* refers to a process whose main task still exists, so the tick handler never
\* reads the state of a task that has been freed.
C13_TerminateAtomic ==
  (scheduler_running /\ ~mem_corrupt) =>
     \A p \in Occupied(Machine) :
        procs[process_table[p]].task \in DOMAIN tasks

(***************************************************************************)
(* The syscall dispatcher: syscall_init, then syscall_handler with any     *)
(* number, on a kernel that has processes                                  *)
(***************************************************************************)
\* syscall numbers: every valid one, a negative one and two past the table
SyscallNums == (-1)..(SYSCALL_MAX + 1)
\* arg1: 0, a size of one byte more than a block, the pointers a process holds
SyscallArgs == {0, KERNEL_HEAP_BLOCK_SIZE + 1} \cup UserPtrs

SyscallInit ==
  /\ syscall_table' = syscall_init(syscall_table)
  /\ UNCHANGED <<heapVars, clientVars, kernelVars, syscall_result, extButSyscall>>

SyscallHandler(syscall_num, arg1) ==
  /\ ~mem_corrupt
  /\ (syscall_num = SYSCALL_PROCESS_MALLOC /\ process_current(Machine) # NULL)
       => Cardinality(UserRecords(process_current(Machine))) < MaxUserAllocs
  /\ \E r \in {syscall_handler(Machine, syscall_table, syscall_num, arg1)} :
       /\ InstallMachine(r, FALSE)
       /\ syscall_result' = [num |-> syscall_num, called |-> r.called,
                             ret |-> r.ret]
  /\ UNCHANGED <<syscall_table, extButSyscall>>

SyscallNext ==
  \/ SyscallInit
  \/ \E size \in ProgramSizes : BootProcessCreate(size)
  \/ SchedulerStart
  \/ \E id \in PidArgs : ProcessSwitch(id)
  \/ \E syscall_num \in SyscallNums, arg1 \in SyscallArgs :
        SyscallHandler(syscall_num, arg1)

SyscallSpec == Init /\ [][SyscallNext]_vars

\* C14: for every number n in [0, SYSCALL_MAX) with a registered handler,
\* syscall_handler(n, a1..a4) calls that handler and returns exactly its
\* return value; for every other n (negative, >= SYSCALL_MAX or unregistered)
\* it returns -EINVSYSCALL, calls no handler and changes nothing.
C14_SyscallTotality ==
  [][\A n \in SyscallNums, a \in SyscallArgs :
        SyscallHandler(n, a) =>
          IF n >= 0 /\ n < SYSCALL_MAX /\ syscall_table[n] # NoHandler
          THEN /\ syscall_result'.called = syscall_table[n]
               /\ syscall_result'.ret
                    = CallSyscallHandler(syscall_table[n], Machine, a).ret
          ELSE /\ syscall_result'.called = NoHandler
               /\ syscall_result'.ret = -EINVSYSCALL
               /\ UNCHANGED <<heapVars, kernelVars>>]_vars

\* syscall_handler has dispatched PROCESS_MALLOC and returned its pointer
C14_Witness ==
  /\ syscall_result.num = SYSCALL_PROCESS_MALLOC
  /\ syscall_result.called = "syscall_process_malloc"
  /\ syscall_result.ret # 0

(***************************************************************************)
(* process_free and the PROCESS_FREE syscall with any pointer: one a       *)
(* process holds, one inside such an allocation, the null pointer, and the *)
(* start of the heap                                                       *)
(***************************************************************************)
FreePtrArgs == {NULL, HeapBase} \cup UserPtrs \cup {p + 16 : p \in UserPtrs}

ProcessFreeCall(id, ptr) ==
  /\ ~mem_corrupt
  /\ process_table[id] # NULL
  /\ \E r \in {process_free(Machine, process_table[id], ptr)} :
       /\ InstallMachine(r, FALSE)
       /\ free_result' = [process |-> process_table[id], ptr |-> ptr,
                           ret |-> r.ret]
  /\ UNCHANGED extButFree

\* PROCESS_FREE invoked by the running task
SyscallFreeCall(ptr) ==
  /\ ~mem_corrupt
  /\ current_task # NULL
  /\ \E r \in {syscall_process_free(Machine, ptr)} :
       /\ InstallMachine(r, FALSE)
       /\ free_result' = [process |-> process_current(Machine), ptr |-> ptr,
                           ret |-> r.ret]
  /\ UNCHANGED extButFree

FreeNext ==
  \/ \E size \in ProgramSizes : ProcessCreate(size)
  \/ SchedulerStart
  \/ \E id \in PidArgs : ProcessSwitch(id)
  \/ \E id \in Occupied(Machine), size \in UserSizes : ProcessMalloc(id, size)
  \/ \E id \in Occupied(Machine), ptr \in FreePtrArgs : ProcessFreeCall(id, ptr)
  \/ \E ptr \in FreePtrArgs : SyscallFreeCall(ptr)

FreeSpec == Init /\ [][FreeNext]_vars

\* ptr is recorded in the allocation table of process
Recorded(process, ptr) ==
  /\ ptr # NULL
  /\ \E i \in DOMAIN procs[process].allocations :
        procs[process].allocations[i].ptr = ptr

\* the block map, the process structures and so every allocation table are
\* as before
FreeChangedNothing ==
  /\ entries' = entries
  /\ procs' = procs

\* C15: process_free(P, ptr), and the PROCESS_FREE syscall with P the current
\* process, with a ptr that is not recorded in P's allocation table returns
\* an error and leaves the heap block map and every process's allocation
\* table unchanged.
C15_FreeOwnOnly ==
  [][/\ \A id \in Occupied(Machine), ptr \in FreePtrArgs :
          (ProcessFreeCall(id, ptr) /\ ~Recorded(process_table[id], ptr))
            => (free_result'.ret < 0 /\ FreeChangedNothing)
     /\ \A ptr \in FreePtrArgs :
          (/\ SyscallFreeCall(ptr)
           /\ process_current(Machine) # NULL
                 => ~Recorded(process_current(Machine), ptr))
            => (free_result'.ret < 0 /\ FreeChangedNothing)]_vars

\* a process has asked to free a pointer that another process holds, and was
\* refused
C15_Witness ==
  /\ free_result.ret = -EINVARG
  /\ free_result.process \in DOMAIN procs
  /\ free_result.ptr \in UserPtrs
  /\ ~Recorded(free_result.process, free_result.ptr)


(***************************************************************************)
(* Interrupts: the boot code initialises the interrupt controller and the  *)
(* scheduler, registers and unregisters handlers, creates processes and    *)
(* starts the scheduler; the GIC signals the interrupts that are enabled   *)
(* while the CPU does not mask them.                                       *)
(***************************************************************************)
\* interrupt numbers: the timer's, another one, and one past the table
IrqNumArgs == {TIMER_IRQ, TIMER_IRQ + 1, MAX_INTERRUPT_HANDLERS}
HandlerArgs == {NoHandler, "timer_irq_handler", "other_handler"}
\* the values GICC_IAR can hold: an interrupt id, or 1023 for a spurious one
IarValues == {TIMER_IRQ, TIMER_IRQ + 1, GICC_IAR_ID_MOD - 1}

InstallHw(hw) ==
  /\ interrupt_initialized' = hw.interrupt_initialized
  /\ interrupt_handlers' = hw.interrupt_handlers
  /\ timer' = hw.timer
  /\ gicd_enabled' = hw.gicd_enabled
  /\ daif_i' = hw.daif_i

IrqCall(op, num, handler, ret, eoir) ==
  [op |-> op, num |-> num, handler |-> handler, ret |-> ret, eoir |-> eoir]

\* a call that changes the interrupt and timer state only
HwCall(r, op, num, handler) ==
  /\ InstallHw(r.hw)
  /\ irq_result' = IrqCall(op, num, handler, r.ret, <<>>)
  /\ UNCHANGED <<heapVars, clientVars, kernelVars, gic_active, extButIrq>>

InterruptInit == HwCall(interrupt_init(Hw), "interrupt_init", 0, NoHandler)

InterruptRegister(num, handler) ==
  HwCall(interrupt_register_handler(Hw, num, handler),
         "interrupt_register_handler", num, handler)

InterruptUnregister(num) ==
  HwCall(interrupt_unregister_handler(Hw, num),
         "interrupt_unregister_handler", num, NoHandler)

InterruptEnable(num) ==
  HwCall(interrupt_enable(Hw, num), "interrupt_enable", num, NoHandler)

SchedulerInit == HwCall(scheduler_init(Hw), "scheduler_init", 0, NoHandler)

\* scheduler_start is called by the boot code (process_management_start):
\* no task has the CPU
SchedulerStartCall ==
  /\ ~mem_corrupt
  /\ current_task = NULL
  /\ \E r \in {SchedulerStartSteps(Machine, Hw)} :
       /\ InstallMachine(r, FALSE)
       /\ InstallHw(r.hw)
       /\ irq_result' = IrqCall("scheduler_start", 0, NoHandler, r.ret, <<>>)
  /\ UNCHANGED <<gic_active, extButIrq>>

\* the GIC signals an interrupt to the CPU: the CPU does not mask IRQs, the
\* CPU interface is on, and either the interrupt is spurious, or it is
\* enabled in the distributor, its source is on, and no interrupt is active
\* (all priorities are equal, so an active interrupt holds back the others
\* until its EOI)
Signalled(iar) ==
  /\ ~daif_i
  /\ interrupt_initialized
  /\ \/ iar % GICC_IAR_ID_MOD >= GIC_SPECIAL_ID
     \/ /\ iar % GICC_IAR_ID_MOD \in gicd_enabled
        /\ gic_active = {}
        /\ iar % GICC_IAR_ID_MOD = TIMER_IRQ => timer.ctl = 1

\* the IRQ vector calls irq_handler, which reads iar from GICC_IAR. It ends
\* with eret: to the interrupted code, or, from task_restore_context, to the
\* task switched to, whose SPSR_EL1 has the I bit clear
Irq(iar) ==
  /\ ~mem_corrupt
  /\ Signalled(iar)
  /\ \E r \in {irq_handler(Machine, Hw, iar)} :
       /\ InstallMachine(r, FALSE)
       /\ gic_active' = IF iar % GICC_IAR_ID_MOD < GIC_SPECIAL_ID /\ r.eoir = <<>>
                        THEN gic_active \cup {iar} ELSE gic_active
       /\ irq_result' = IrqCall("irq_handler", iar, NoHandler, r.ret, r.eoir)
  /\ UNCHANGED <<interrupt_initialized, interrupt_handlers, timer, gicd_enabled,
                 daif_i, extButIrq>>

\* the table of handlers: any registration and unregistration, before and
\* after the timer takes its slot
IrqTableNext ==
  \/ InterruptInit
  \/ \E num \in IrqNumArgs, handler \in HandlerArgs : InterruptRegister(num, handler)
  \/ \E num \in IrqNumArgs : InterruptUnregister(num)
  \/ \E num \in IrqNumArgs : InterruptEnable(num)
  \/ SchedulerInit

IrqTableSpec == Init /\ [][IrqTableNext]_vars

\* the interrupts taken: the timer's, and one of a device whose handler
\* returns EOK
IrqNext ==
  \/ InterruptInit
  \/ InterruptRegister(TIMER_IRQ + 1, "other_handler")
  \/ InterruptEnable(TIMER_IRQ + 1)
  \/ SchedulerInit
  \/ \E size \in ProgramSizes : ProcessCreate(size)
  \/ \E id \in Occupied(Machine) : ProcessTerminate(id)
  \/ SchedulerStartCall
  \/ \E iar \in IarValues : Irq(iar)

IrqSpec == Init /\ [][IrqNext]_vars

\* C16: every interrupt acknowledged by reading GICC_IAR with an id below
\* 1020 is followed by exactly one write of that IAR value to GICC_EOIR,
\* after its handler has run, also when the handler is the scheduler tick
\* that switches to another task
C16_AckEoiPaired ==
  [][\A iar \in IarValues :
       (Irq(iar) /\ iar % GICC_IAR_ID_MOD < GIC_SPECIAL_ID) =>
          irq_result'.eoir = <<iar>>]_vars

\* C17: interrupt_register_handler(num, h) on a slot that holds a handler
\* returns -EINUSE and leaves the handler of the slot in place; right after
\* interrupt_unregister_handler(num) has returned EOK, the registration
\* returns EOK and the slot holds h
C17_RegisterInUse ==
  [][\A num \in IrqNumArgs, h \in HandlerArgs :
       InterruptRegister(num, h) =>
         /\ (/\ interrupt_initialized
             /\ num < MAX_INTERRUPT_HANDLERS
             /\ h # NoHandler
             /\ interrupt_handlers[num] # NoHandler) =>
               /\ irq_result'.ret = -EINUSE
               /\ interrupt_handlers' = interrupt_handlers
         /\ (/\ h # NoHandler
             /\ irq_result.op = "interrupt_unregister_handler"
             /\ irq_result.num = num
             /\ irq_result.ret = EOK) =>
               /\ irq_result'.ret = EOK
               /\ interrupt_handlers'[num] = h]_vars

\* a registration was refused with -EINUSE
C17_Witness ==
  /\ irq_result.op = "interrupt_register_handler"
  /\ irq_result.ret = -EINUSE
  /\ interrupt_handlers[irq_result.num] # NoHandler
  /\ interrupt_handlers[irq_result.num] # irq_result.handler


\* C19: when scheduler_start returns an error, whichever step failed, the
\* scheduler is not marked running, the timer is disabled (CNTP_CTL_EL0
\* and the enable bit of its interrupt) and the CPU masks IRQs
C19_StartFailureUndone ==
  [][(SchedulerStartCall /\ irq_result'.ret < 0) =>
        /\ ~scheduler_running'
        /\ timer'.ctl = 0
        /\ TIMER_IRQ \notin gicd_enabled'
        /\ daif_i']_vars

\* scheduler_start has enabled the timer and the interrupts, has found no
\* READY task, and has returned -ENOTASK
C19_Witness ==
  /\ irq_result.op = "scheduler_start"
  /\ irq_result.ret = -ENOTASK
  /\ timer.initialized
  /\ interrupt_initialized


(***************************************************************************)
(* process_create on a heap that is short of memory: the kernel allocates  *)
(* and frees memory of its own, and creates and terminates processes       *)
(***************************************************************************)
\* the blocks process_create takes: the structure, the stack, the program
\* and the task
ProcessBlocks ==
  CeilBlocks(Bytes(SIZEOF_PROCESS)) + CeilBlocks(Bytes(SYNAPSE_PROCESS_STACK_SIZE))
    + 1 + CeilBlocks(Bytes(SIZEOF_TASK))

\* what the kernel asks of kmalloc: sizes that leave, beside one process,
\* too few blocks for the structure, the stack, the program or the task of
\* the next process
CreateFillSizes ==
  {[q |-> KHeapTotal - ProcessBlocks - left, r |-> 0] :
     left \in {0, CeilBlocks(Bytes(SIZEOF_PROCESS)),
               ProcessBlocks - 2, ProcessBlocks - 1}}

\* the kernel's own allocations, while the heap is sound
KernelFill(size) ==
  /\ ~mem_corrupt
  /\ heap_oob = {}
  /\ KMalloc(size)

KernelRelease(s) ==
  /\ ~mem_corrupt
  /\ heap_oob = {}
  /\ KFree(s)

ProcessCreateCall(size) ==
  /\ ~mem_corrupt
  /\ heap_oob = {}
  /\ next_task_id < MaxTasks
  /\ \E r \in {process_create(Machine, size)} :
       /\ InstallMachine(r, FALSE)
       /\ create_result' = [called |-> TRUE, size |-> size, ret |-> r.ret]
  /\ UNCHANGED extButCreate

CreateNext ==
  \/ \E size \in CreateFillSizes : KernelFill(size)
  \/ \E s \in 1..MaxAllocs : KernelRelease(s)
  \/ \E size \in ProgramSizes : ProcessCreateCall(size)
  \/ \E id \in Occupied(Machine) : ProcessTerminate(id)

CreateSpec == Init /\ [][CreateNext]_vars

\* C18: when process_create returns an error, the process table, the ring
\* of tasks and the block map of the heap are what they were before the call
C18_CreateFailureUnwinds ==
  [][\A size \in ProgramSizes :
       (ProcessCreateCall(size) /\ create_result'.ret < 0) =>
          UNCHANGED <<process_table, tasks, task_list_head, entries>>]_vars


(***************************************************************************)
(* The kernel page tables before the MMU is enabled: kernel_mmu_init, then *)
(* mappings are made and addresses are translated                          *)
(***************************************************************************)
\* physical and virtual addresses: page-aligned and not, the last page of a
\* page table and the first of the next, and an address of the upper half
MmuPhysArgs == {Addr(FALSE, 16, 0), Addr(FALSE, 17, 8)}
MmuVirtArgs ==
  {Addr(FALSE, 1, 0), Addr(FALSE, PTE_MASK, 0), Addr(FALSE, 1, 8),
   Addr(TRUE, 1, 0)}
MmuSizes == {1, KERNEL_HEAP_BLOCK_SIZE, KERNEL_HEAP_BLOCK_SIZE + 1}
MmuFlags == {MAP_READ + MAP_WRITE}
\* the addresses asked of kernel_mmu_translate: v + k for the addresses v
\* mapped, and an address that nothing maps
MmuTranslateArgs ==
  {AddPages(v, k) : v \in MmuVirtArgs, k \in 0..(PagesOf(KERNEL_HEAP_BLOCK_SIZE + 1) - 1)}
    \cup {Addr(FALSE, 2 ^ (PGD_SHIFT - PTE_SHIFT), 0)}

MmuState == [entries |-> entries, pt_mem |-> pt_mem, next |-> NULL]

KernelMmuInit ==
  /\ kernel_pgd = NULL
  /\ \E r \in {kernel_mmu_init(MmuState)} :
       /\ entries' = r.st.entries
       /\ pt_mem' = r.st.pt_mem
       /\ kernel_pgd' = r.pgd
  /\ UNCHANGED <<heap_total, heap_oob, clientVars, kernelVars, mmu_calls,
                 extButMmu>>

KernelMmuMap(phys_addr, virt_addr, size, flags) ==
  /\ kernel_pgd # NULL
  /\ \E r \in {kernel_mmu_map(MmuState, kernel_pgd, phys_addr, virt_addr,
                              size, flags)} :
       /\ entries' = r.st.entries
       /\ pt_mem' = r.st.pt_mem
       /\ mmu_calls' = [mmu_calls EXCEPT !.map =
                          [called |-> TRUE, phys |-> phys_addr,
                           virt |-> virt_addr, size |-> size,
                           flags |-> flags, ret |-> r.ret]]
  /\ UNCHANGED <<heap_total, heap_oob, clientVars, kernelVars, kernel_pgd,
                 extButMmu>>

KernelMmuTranslate(virt_addr, load) ==
  /\ kernel_pgd # NULL
  /\ \E r \in {kernel_mmu_translate(pt_mem, kernel_pgd, virt_addr, load)} :
       mmu_calls' = [mmu_calls EXCEPT !.translate =
                       [called |-> TRUE, virt |-> virt_addr,
                        aborted |-> r.aborted, ret |-> r.ret, phys |-> r.phys]]
  /\ UNCHANGED <<heapVars, clientVars, kernelVars, kernel_pgd, pt_mem,
                 extButMmu>>

MmuNext ==
  \/ KernelMmuInit
  \/ \E p \in MmuPhysArgs, v \in MmuVirtArgs, n \in MmuSizes, f \in MmuFlags :
       KernelMmuMap(p, v, n, f)
  \/ \E v \in MmuTranslateArgs, load \in HighLoads : KernelMmuTranslate(v, load)

MmuSpec == Init /\ [][MmuNext]_vars

\* C20: after kernel_mmu_map(p, v, n, f) has returned EOK, and with no
\* unmap or set_flags since, kernel_mmu_translate(v + k) returns EOK and
\* yields p + k for every multiple k of the page size with 0 <= k < n
C20_TranslateRoundTrip ==
  [][\A va \in MmuTranslateArgs, load \in HighLoads :
       (/\ KernelMmuTranslate(va, load)
        /\ mmu_calls.map.called
        /\ mmu_calls.map.ret = EOK) =>
          \A k \in 0..((mmu_calls.map.size - 1) \div KERNEL_HEAP_BLOCK_SIZE) :
             va = AddPages(mmu_calls.map.virt, k) =>
               /\ ~mmu_calls'.translate.aborted
               /\ mmu_calls'.translate.ret = EOK
               /\ mmu_calls'.translate.phys = AddPages(mmu_calls.map.phys, k)]_vars

(***************************************************************************)
(* Unmapping: the page tables with mappings made, ranges unmapped and      *)
(* addresses translated                                                    *)
(***************************************************************************)
\* the ranges unmapped: the page mapped, the page after it, two pages
UnmapVirtArgs == {Addr(FALSE, 1, 0), Addr(FALSE, 2, 0)}
UnmapSizes == {KERNEL_HEAP_BLOCK_SIZE, KERNEL_HEAP_BLOCK_SIZE + 1}

\* the page of virt_addr lies in [virt, virt + size)
InRange(virt_addr, virt, size) ==
  /\ virt_addr.high = virt.high
  /\ virt_addr.page >= virt.page
  /\ virt_addr.page < virt.page + PagesOf(size)

KernelMmuUnmap(virt_addr, size, load) ==
  /\ kernel_pgd # NULL
  /\ \E r \in {kernel_mmu_unmap(pt_mem, kernel_pgd, virt_addr, size, load)} :
       /\ pt_mem' = r.mem
       /\ mmu_calls' = [mmu_calls EXCEPT !.unmap =
                          [called |-> TRUE, aborted |-> r.aborted,
                           ret |-> r.ret]]
  /\ UNCHANGED <<heapVars, clientVars, kernelVars, kernel_pgd, extButMmu>>

UnmapNext ==
  \/ KernelMmuInit
  \/ \E v \in UnmapVirtArgs, n \in UnmapSizes, f \in MmuFlags :
       KernelMmuMap(Addr(FALSE, 16, 0), v, n, f)
  \/ \E v \in UnmapVirtArgs, n \in UnmapSizes, load \in HighLoads :
       KernelMmuUnmap(v, n, load)
  \/ \E v \in MmuTranslateArgs, load \in HighLoads : KernelMmuTranslate(v, load)

UnmapSpec == Init /\ [][UnmapNext]_vars

\* C21: kernel_mmu_unmap(v, n) returns, and after it kernel_mmu_translate
\* of every page in [v, v + n) fails with -ENOMAP, while every page outside
\* the range that the last successful kernel_mmu_map mapped still
\* translates to the physical address it was mapped to
C21_UnmapThenTranslate ==
  [][\A v \in UnmapVirtArgs, n \in UnmapSizes, load \in HighLoads :
       KernelMmuUnmap(v, n, load) =>
         /\ ~mmu_calls'.unmap.aborted
         /\ \A va \in MmuTranslateArgs :
              \E t \in {kernel_mmu_translate(pt_mem', kernel_pgd, va, load)} :
                /\ InRange(va, v, n) => (~t.aborted /\ t.ret = -ENOMAP)
                /\ (/\ ~InRange(va, v, n)
                    /\ mmu_calls.map.called
                    /\ mmu_calls.map.ret = EOK
                    /\ InRange(va, mmu_calls.map.virt, mmu_calls.map.size)) =>
                      (/\ ~t.aborted
                       /\ t.ret = EOK
                       /\ t.phys = AddPages(PageAlign(mmu_calls.map.phys),
                                      va.page - mmu_calls.map.virt.page))]_vars

(***************************************************************************)
(* The attributes of the pages mapped, for every combination of map flags  *)
(***************************************************************************)
\* every combination of the nine flags of enum map_flags
AllMapFlags == 0..(MAP_SHARED + MAP_SHARED - 1)

\* the PTE that the tables hold for virt_addr, found as kernel_mmu_map
\* finds it: each table through the address its entry names
PteOf(mem, pgd, virt_addr) ==
  LET pgd_entry == LoadEntry(mem, pgd, TableIndex(virt_addr, PGD_SHIFT, PGD_MASK))
      pud_entry == LoadEntry(mem, kpage_from_phys(pgd_entry.page),
                     TableIndex(virt_addr, PUD_SHIFT, PUD_MASK))
      pmd_entry == LoadEntry(mem, kpage_from_phys(pud_entry.page),
                     TableIndex(virt_addr, PMD_SHIFT, PMD_MASK))
  IN IF pgd_entry.type = PTE_TYPE_FAULT \/ pud_entry.type = PTE_TYPE_FAULT
        \/ pmd_entry.type = PTE_TYPE_FAULT
     THEN ZeroEntry
     ELSE LoadEntry(mem, kpage_from_phys(pmd_entry.page),
            TableIndex(virt_addr, PTE_SHIFT, PTE_MASK))

AttrNext ==
  \/ KernelMmuInit
  \/ \E f \in AllMapFlags :
       KernelMmuMap(Addr(FALSE, 16, 0), Addr(FALSE, 1, 0), 1, f)

AttrSpec == Init /\ [][AttrNext]_vars

\* C22: for every combination of map flags the page entered by
\* kernel_mmu_map has AF set; AP is RW or RO by WRITE, and EL1-only or
\* EL1+EL0 by USER; UXN and PXN are set when EXEC is absent, and UXN alone
\* when EXEC is given without USER; a mapping with DEVICE has the
\* Device-nGnRE index and both UXN and PXN set
C22_FlagsToAttributes ==
  [][\A f \in AllMapFlags :
       (/\ KernelMmuMap(Addr(FALSE, 16, 0), Addr(FALSE, 1, 0), 1, f)
        /\ mmu_calls'.map.ret = EOK) =>
          \E a \in {PteOf(pt_mem', kernel_pgd, Addr(FALSE, 1, 0)).attr} :
            /\ a.af = 1
            /\ a.ap = (IF HasFlag(f, MAP_WRITE)
                       THEN (IF HasFlag(f, MAP_USER) THEN PTE_ATTR_AP_RW_ALL
                             ELSE PTE_ATTR_AP_RW_EL1)
                       ELSE (IF HasFlag(f, MAP_USER) THEN PTE_ATTR_AP_RO_ALL
                             ELSE PTE_ATTR_AP_RO_EL1))
            /\ ~HasFlag(f, MAP_EXEC) => (a.uxn = 1 /\ a.pxn = 1)
            /\ (HasFlag(f, MAP_EXEC) /\ ~HasFlag(f, MAP_USER)
                  /\ ~HasFlag(f, MAP_DEVICE)) => (a.uxn = 1 /\ a.pxn = 0)
            /\ HasFlag(f, MAP_DEVICE) =>
                  (/\ a.indx = MEMORY_ATTR_DEVICE_nGnRE
                   /\ a.uxn = 1
                   /\ a.pxn = 1)]_vars

(***************************************************************************)
(* The tensor pool: ai_memory_init at boot, then tensors are created,      *)
(* viewed and destroyed                                                    *)
(***************************************************************************)
AiInit == BootState(AiHeapTotal, FALSE)

InstallAi(r) ==
  /\ entries' = r.m.entries
  /\ heap_oob' = r.m.heap_oob
  /\ ai_mem_pool' = r.m.pool
  /\ ai_tensors' = r.m.tensors
  /\ ai_data' = r.m.data
  /\ ai_handed' = r.m.handed
  /\ UNCHANGED <<heap_total, clientVars, kernelVars, extButAi>>

\* the pool is set up and the heap is whole
AiReady == ai_mem_pool.small_block_pool # NULL /\ heap_oob = {}

AiMemoryInit ==
  /\ ai_mem_pool = ZeroPool
  /\ ai_result.op = "none"
  /\ \E r \in {ai_memory_init(AiMachine)} :
       /\ InstallAi(r)
       /\ ai_result' = [NoAiCall EXCEPT !.op = "ai_memory_init", !.ret = r.ret]

AiTensorCreate(shape, dtype, layout, flags) ==
  /\ AiReady
  /\ Cardinality(DOMAIN ai_tensors) < MaxTensors
  /\ ai_mem_pool.allocations < MaxAiAllocations
  /\ \E r \in {ai_tensor_create(AiMachine, shape, Len(shape), dtype, layout,
                                 flags)} :
       /\ InstallAi(r)
       /\ ai_result' = [op |-> "ai_tensor_create", tensor |-> r.ret,
                        ret |-> EOK, served |-> r.served,
                        best_idx |-> r.best_idx]

\* the caller destroys the views of a tensor before the tensor
AiTensorDestroy(tensor) ==
  /\ AiReady
  /\ tensor \in DOMAIN ai_tensors
  /\ \A v \in DOMAIN ai_tensors : ai_tensors[v].view_of # tensor
  /\ ai_mem_pool.deallocations < MaxAiAllocations
  /\ \E r \in {ai_tensor_destroy(AiMachine, tensor)} :
       /\ InstallAi(r)
       /\ ai_result' = [NoAiCall EXCEPT !.op = "ai_tensor_destroy",
                                        !.tensor = tensor, !.ret = r.ret]

\* start_indices and shape have an entry for each dimension of the tensor
AiTensorView(tensor, start_indices, shape) ==
  /\ AiReady
  /\ tensor \in DOMAIN ai_tensors
  /\ ai_tensors[tensor].view_of = NULL
  /\ Len(start_indices) = ai_tensors[tensor].ndim
  /\ Len(shape) = ai_tensors[tensor].ndim
  /\ Cardinality(DOMAIN ai_tensors) < MaxTensors
  /\ \E r \in {ai_tensor_view(AiMachine, tensor, start_indices, shape)} :
       /\ InstallAi(r)
       /\ ai_result' = [NoAiCall EXCEPT !.op = "ai_tensor_view",
                                        !.tensor = r.ret]

\* shapes whose data fits a small block and shapes whose data does not
PoolShapes == {<<4>>, <<2, 64>>, <<3, 64>>}
ViewStarts == {<<0>>, <<1>>, <<0, 0>>, <<1, 0>>}
ViewShapes == {<<2>>, <<1, 64>>}

PoolNext ==
  \/ AiMemoryInit
  \/ \E shape \in PoolShapes :
       AiTensorCreate(shape, TENSOR_TYPE_INT8, TENSOR_LAYOUT_ROW_MAJOR, 0)
  \/ \E t \in DOMAIN ai_tensors : AiTensorDestroy(t)
  \/ \E t \in DOMAIN ai_tensors, start \in ViewStarts, shape \in ViewShapes :
       AiTensorView(t, start, shape)

PoolSpec == AiInit /\ [][PoolNext]_vars

\* the index of the small block that holds an address of the small block pool
SmallBlockIndex(ptr) ==
  (ptr - ai_mem_pool.small_block_pool) \div AI_MEMORY_MIN_BLOCK_SIZE

InSmallPool(ptr) ==
  /\ ptr >= ai_mem_pool.small_block_pool
  /\ ptr < ai_mem_pool.small_block_pool
             + (ai_mem_pool.small_block_count * AI_MEMORY_MIN_BLOCK_SIZE)

\* C23: bit i of the small-block bitmap is 1 if and only if small block i
\* is handed out: returned by an allocation and not freed since
C23_BitmapMatchesHandedOut ==
  ai_mem_pool.small_block_bitmap
    = {SmallBlockIndex(p) : p \in {q \in DOMAIN ai_handed : InSmallPool(q)}}

\* the byte ranges [p, p + n) and [q, m + q) have a byte in common
Overlap(p, n, q, m) == p < q + m /\ q < p + n

\* C24: every free-list descriptor describes a byte range disjoint from
\* every region handed out and from every other free-list descriptor
C24_FreeListDisjoint ==
  \A i \in 1..Len(ai_mem_pool.free_blocks) :
     /\ \A p \in DOMAIN ai_handed :
          ~Overlap(ai_mem_pool.free_blocks[i], ai_mem_pool.free_block_sizes[i],
                   p, ai_handed[p])
     /\ \A j \in 1..Len(ai_mem_pool.free_blocks) :
          i # j => ~Overlap(ai_mem_pool.free_blocks[i],
                            ai_mem_pool.free_block_sizes[i],
                            ai_mem_pool.free_blocks[j],
                            ai_mem_pool.free_block_sizes[j])

\* the free blocks large enough for size bytes at the alignment, by index
\* from 0
Eligible(pool, size, alignment) ==
  {i \in 0..(Len(pool.free_blocks) - 1) :
     pool.free_block_sizes[i + 1] >= size + AlignmentOverhead(pool, i, alignment)}

\* size rounded up to the alignment
RoundUp(size, alignment) == ((size + alignment - 1) \div alignment) * alignment

\* C25: when an allocation larger than AI_MEMORY_MIN_BLOCK_SIZE is served
\* from the free list, the free block chosen is large enough for the size
\* and the alignment overhead, and no free block that is large enough is
\* smaller
C25_BestFit ==
  [][\A shape \in PoolShapes :
       (/\ AiTensorCreate(shape, TENSOR_TYPE_INT8, TENSOR_LAYOUT_ROW_MAJOR, 0)
        /\ ai_result'.served = "free_list") =>
          /\ RoundUp(TotalElems(shape), 8) > AI_MEMORY_MIN_BLOCK_SIZE
          /\ ai_result'.best_idx
               \in Eligible(ai_mem_pool, RoundUp(TotalElems(shape), 8), 8)
          /\ ai_tensors'[ai_result'.tensor].data
               = align_pointer(ai_mem_pool.free_blocks[ai_result'.best_idx + 1], 8)
          /\ \A i \in Eligible(ai_mem_pool, RoundUp(TotalElems(shape), 8), 8) :
               ai_mem_pool.free_block_sizes[ai_result'.best_idx + 1]
                 <= ai_mem_pool.free_block_sizes[i + 1]]_vars

\* an allocation was served from a free block that is not the first one
\* large enough: the first free block is larger than the one chosen
C25_Witness ==
  /\ ai_result.op = "ai_tensor_create"
  /\ ai_result.served = "free_list"
  /\ ai_result.best_idx > 0
  /\ ai_mem_pool.free_block_sizes[1]
       > ai_handed[ai_tensors[ai_result.tensor].data]

\* C28: destroying a tensor returned by ai_tensor_view leaves the data
\* region of its parent allocated: the small-block bit of the parent's data
\* stays set and nothing is pushed onto the free list
C28_ViewDoesNotOwnData ==
  [][\A t \in DOMAIN ai_tensors :
       (AiTensorDestroy(t) /\ ai_tensors[t].view_of # NULL) =>
          /\ ai_mem_pool'.free_blocks = ai_mem_pool.free_blocks
          /\ ai_mem_pool'.small_block_bitmap = ai_mem_pool.small_block_bitmap
          /\ ai_tensors[t].view_of \in DOMAIN ai_tensors'
          /\ ai_handed' = ai_handed]_vars

(***************************************************************************)
(* Tensors: shapes, layouts and strides                                    *)
(***************************************************************************)
AiTensorSetLayout(tensor, new_layout) ==
  /\ AiReady
  /\ tensor \in DOMAIN ai_tensors
  /\ \E r \in {ai_tensor_set_layout(AiMachine, tensor, new_layout)} :
       /\ InstallAi(r)
       /\ ai_result' = [NoAiCall EXCEPT !.op = "ai_tensor_set_layout",
                                        !.tensor = tensor, !.ret = r.ret]

AiTensorReshape(tensor, new_shape) ==
  /\ AiReady
  /\ tensor \in DOMAIN ai_tensors
  /\ \E r \in {ai_tensor_reshape(AiMachine, tensor, new_shape, Len(new_shape))} :
       /\ InstallAi(r)
       /\ ai_result' = [NoAiCall EXCEPT !.op = "ai_tensor_reshape",
                                        !.tensor = tensor, !.ret = r.ret]

\* the caller copies a buffer of ones, as large as the tensor
AiTensorCopyData(tensor) ==
  /\ AiReady
  /\ tensor \in DOMAIN ai_tensors
  /\ \E r \in {ai_tensor_copy_data(AiMachine, tensor, 1,
                                    ai_tensor_get_size(AiMachine, tensor))} :
       /\ InstallAi(r)
       /\ ai_result' = [NoAiCall EXCEPT !.op = "ai_tensor_copy_data",
                                        !.tensor = tensor, !.ret = r.ret]

TensorShapes == {<<2, 3>>, <<2, 3, 4>>}
TensorLayouts ==
  {TENSOR_LAYOUT_ROW_MAJOR, TENSOR_LAYOUT_COLUMN_MAJOR, TENSOR_LAYOUT_NCHW,
   TENSOR_LAYOUT_NHWC}
\* shapes of 6 and of 24 elements with the number of dimensions kept and
\* changed, and a shape of another number of elements
ReshapeShapes == {<<3, 2>>, <<6>>, <<4, 6>>, <<5>>}

StrideNext ==
  \/ AiMemoryInit
  \/ \E shape \in TensorShapes, layout \in TensorLayouts :
       AiTensorCreate(shape, TENSOR_TYPE_INT8, layout, TENSOR_MEM_ZEROED)
  \/ \E t \in DOMAIN ai_tensors, layout \in TensorLayouts :
       AiTensorSetLayout(t, layout)
  \/ \E t \in DOMAIN ai_tensors : AiTensorDestroy(t)

StrideSpec == AiInit /\ [][StrideNext]_vars

ReshapeNext ==
  \/ AiMemoryInit
  \/ \E shape \in TensorShapes :
       AiTensorCreate(shape, TENSOR_TYPE_INT8, TENSOR_LAYOUT_ROW_MAJOR,
                      TENSOR_MEM_ZEROED)
  \/ \E t \in DOMAIN ai_tensors, shape \in ReshapeShapes :
       AiTensorReshape(t, shape)
  \/ \E t \in DOMAIN ai_tensors : AiTensorCopyData(t)
  \/ \E t \in DOMAIN ai_tensors : AiTensorDestroy(t)

ReshapeSpec == AiInit /\ [][ReshapeNext]_vars

\* the stride rule of a layout: for COLUMN_MAJOR s[1] = 1 and
\* s[i] = s[i - 1] * shape[i - 1]; for the other layouts s[ndim] = 1 and
\* s[i] = s[i + 1] * shape[i + 1]
StrideRule(layout, shape) ==
  IF layout = TENSOR_LAYOUT_COLUMN_MAJOR
  THEN [i \in 1..Len(shape) |-> TotalElems(SubSeq(shape, 1, i - 1))]
  ELSE [i \in 1..Len(shape) |-> TotalElems(SubSeq(shape, i + 1, Len(shape)))]

\* C26: after ai_tensor_create and after ai_tensor_set_layout the strides
\* of the tensor are those of the stride rule of its layout
C26_StridesFollowLayout ==
  [][(\/ \E shape \in TensorShapes, layout \in TensorLayouts :
           /\ AiTensorCreate(shape, TENSOR_TYPE_INT8, layout, TENSOR_MEM_ZEROED)
           /\ ai_result'.tensor # NULL
      \/ \E t \in DOMAIN ai_tensors, layout \in TensorLayouts :
           AiTensorSetLayout(t, layout) /\ ai_result'.ret = EOK) =>
        ai_tensors'[ai_result'.tensor].strides
          = StrideRule(ai_tensors'[ai_result'.tensor].layout,
                       ai_tensors'[ai_result'.tensor].shape)]_vars

\* the two arrays of n entries that ai_tensor_reshape allocates when the
\* number of dimensions changes can both be allocated
CanAllocateArrays(n) ==
  \E sh \in {ai_kmalloc(AiMachine, n * 8)} :
     /\ sh.ret # NULL
     /\ ai_kmalloc(sh.m, n * 8).ret # NULL

BootMagics == {BOOT_INFO_MAGIC, 0, BOOT_INFO_MAGIC + 1}
\* ram_size: 0, 8, 16 and 24 MB
BootRamSizes == {0, 8 * 1024 * 1024, 16 * 1024 * 1024, 24 * 1024 * 1024}
BootInfos == [present : BOOLEAN, magic : BootMagics, ram_size : BootRamSizes]

\* before kheap_init the heap table holds nothing
BootInit ==
  /\ boot_info \in BootInfos
  /\ kernel_main_frame = [NotEntered EXCEPT !.pc = "kernel_main"]
  /\ mmu_tables = ZeroTables
  /\ mmu_result = NoPagingCall
  /\ heap_saddr = WordOf(HeapBase)
  /\ svc_frame = NoSvcCall
  /\ heap_total = 0
  /\ entries = EmptyFn
  /\ heap_oob = {}
  /\ held = [s \in 1..MaxAllocs |-> NoPtr]
  /\ hlast = "none"
  /\ tasks = EmptyFn
  /\ task_list_head = NULL
  /\ current_task = NULL
  /\ next_task_id = 0
  /\ procs = EmptyFn
  /\ process_table = [i \in Pids |-> NULL]
  /\ current_process = 0
  /\ scheduler_running = FALSE
  /\ mem_corrupt = FALSE
  /\ starve = [counting |-> FALSE, missed |-> EmptyFn]
  /\ kmalloc_frame = EmptyFn
  /\ terminate_frame = [active |-> FALSE, id |-> 0, process |-> NULL]
  /\ syscall_table = [n \in 0..(SYSCALL_MAX - 1) |-> NoHandler]
  /\ syscall_result = [num |-> 0, called |-> NoHandler, ret |-> EOK]
  /\ free_result = [process |-> NULL, ptr |-> NULL, ret |-> EOK]
  /\ interrupt_initialized = FALSE
  /\ interrupt_handlers = [n \in 0..(MAX_INTERRUPT_HANDLERS - 1) |-> NoHandler]
  /\ timer = [initialized |-> FALSE, handler |-> NoHandler, ctl |-> 0]
  /\ gicd_enabled = {}
  /\ gic_active = {}
  /\ daif_i = TRUE
  /\ irq_result = NoIrqCall
  /\ create_result = [called |-> FALSE, size |-> Bytes(0), ret |-> EOK]
  /\ kernel_pgd = NULL
  /\ pt_mem = EmptyFn
  /\ mmu_calls = NoMmuCalls
  /\ ai_mem_pool = ZeroPool
  /\ ai_tensors = EmptyFn
  /\ ai_data = EmptyFn
  /\ ai_handed = EmptyFn
  /\ ai_result = NoAiCall

\* boot_info && boot_info->magic == BOOT_INFO_MAGIC
BootInfoVerified == boot_info.present /\ boot_info.magic = BOOT_INFO_MAGIC

\* the next call of kernel_main, or the halt loop after a failed one
Proceed(res, next) ==
  kernel_main_frame' =
    [kernel_main_frame EXCEPT !.pc = IF res < 0 THEN "halt" ELSE next,
                              !.res = res]

\* kernel_main up to the call of memory_system_init
KernelMainVerify ==
  /\ kernel_main_frame.pc = "kernel_main"
  /\ kernel_main_frame' =
       [kernel_main_frame EXCEPT
          !.pc = "memory_system_init",
          !.uart = IF BootInfoVerified
                   THEN <<"Kernel started successfully!",
                          "Boot info verified. System details:">>
                   ELSE <<"Kernel started successfully!",
                          "WARNING: Boot info invalid or missing">>,
          !.ram_size_loads = IF BootInfoVerified THEN <<boot_info.ram_size>>
                             ELSE <<>>]
  /\ UNCHANGED <<heapVars, clientVars, kernelVars, preemptVars, syscallVars,
                 free_result, irqVars, create_result, mmuVars, aiVars,
                 boot_info,
                 pagingVars, svcVars>>

\* the argument boot_info->ram_size, and memory_system_init up to the end
\* of kheap_init. faults: the pointer is NULL and the load at its offset 16
\* takes an exception; a load that does not fault yields what is there
MemorySystemInitHeap(faults) ==
  /\ kernel_main_frame.pc = "memory_system_init"
  /\ faults => ~boot_info.present
  /\ IF faults
     THEN /\ kernel_main_frame' = [kernel_main_frame EXCEPT !.pc = "fault"]
          /\ UNCHANGED <<heap_total, entries>>
     ELSE /\ kernel_main_frame' =
               [kernel_main_frame EXCEPT
                  !.pc = "ai_memory_init",
                  !.uart = Append(@, "Initializing memory system..."),
                  !.ram_size_loads = Append(@, boot_info.ram_size)]
          /\ heap_total' = kheap_init(boot_info.ram_size)
          /\ entries' = [i \in 0..(kheap_init(boot_info.ram_size) - 1) |->
                           HEAP_BLOCK_TABLE_ENTRY_FREE]
  /\ UNCHANGED <<heap_oob, clientVars, kernelVars, preemptVars, syscallVars,
                 free_result, irqVars, create_result, mmuVars, aiVars,
                 boot_info,
                 pagingVars, svcVars>>

\* the rest of memory_system_init (the table of memory regions is not part
\* of this state) and the test of its result
MemorySystemInitPool ==
  /\ kernel_main_frame.pc = "ai_memory_init"
  /\ \E r \in {ai_memory_init(AiMachine)} :
       /\ entries' = r.m.entries
       /\ heap_oob' = r.m.heap_oob
       /\ ai_mem_pool' = r.m.pool
       /\ ai_tensors' = r.m.tensors
       /\ ai_data' = r.m.data
       /\ ai_handed' = r.m.handed
       /\ ai_result' = [NoAiCall EXCEPT !.op = "ai_memory_init", !.ret = r.ret]
       /\ Proceed(r.ret, "memory_run_tests")
  /\ UNCHANGED <<heap_total, clientVars, kernelVars, preemptVars, syscallVars,
                 free_result, irqVars, create_result, mmuVars, boot_info,
                 pagingVars, svcVars>>

\* a failed test is reported and the boot goes on
MemoryRunTests ==
  /\ kernel_main_frame.pc = "memory_run_tests"
  /\ \E r \in {memory_run_tests(AiMachine)} :
       /\ entries' = r.m.entries
       /\ heap_oob' = r.m.heap_oob
       /\ ai_mem_pool' = r.m.pool
       /\ ai_tensors' = r.m.tensors
       /\ ai_data' = r.m.data
       /\ ai_handed' = r.m.handed
       /\ kernel_main_frame' =
            [kernel_main_frame EXCEPT !.pc = "process_management_init",
                                      !.res = r.ret]
  /\ UNCHANGED <<heap_total, clientVars, kernelVars, preemptVars, syscallVars,
                 free_result, irqVars, create_result, mmuVars, ai_result,
                 boot_info,
                 pagingVars, svcVars>>

ProcessManagementInit ==
  /\ kernel_main_frame.pc = "process_management_init"
  /\ \E r \in {process_management_init(Hw, syscall_table)} :
       /\ InstallHw(r.hw)
       /\ syscall_table' = r.table
       /\ Proceed(r.ret, "create_kernel_process")
  /\ UNCHANGED <<heapVars, clientVars, kernelVars, preemptVars, syscall_result,
                 free_result, gic_active, irq_result, create_result, mmuVars,
                 aiVars, boot_info,
                 pagingVars, svcVars>>

CreateProcess(entry_point, this, next) ==
  /\ kernel_main_frame.pc = this
  /\ \E r \in {create_process(Machine, entry_point)} :
       /\ InstallMachine(r, FALSE)
       /\ Proceed(r.ret, next)
  /\ UNCHANGED <<preemptVars, syscallVars, free_result, irqVars, create_result,
                 mmuVars, aiVars, boot_info,
                 pagingVars, svcVars>>

CreateKernelProcess ==
  CreateProcess(kernel_process_test, "create_kernel_process",
                "create_user_process")

CreateUserProcess ==
  CreateProcess(user_process_test, "create_user_process",
                "process_management_start")

\* the first task has the CPU, or kernel_main halts after its last message
ProcessManagementStart ==
  /\ kernel_main_frame.pc = "process_management_start"
  /\ \E r \in {process_management_start(Machine, Hw)} :
       /\ InstallMachine(r, FALSE)
       /\ InstallHw(r.hw)
       /\ Proceed(r.ret, "task")
  /\ UNCHANGED <<preemptVars, syscallVars, free_result, gic_active, irq_result,
                 create_result, mmuVars, aiVars, boot_info,
                 pagingVars, svcVars>>

BootNext ==
  \/ KernelMainVerify
  \/ \E faults \in BOOLEAN : MemorySystemInitHeap(faults)
  \/ MemorySystemInitPool
  \/ MemoryRunTests
  \/ ProcessManagementInit
  \/ CreateKernelProcess
  \/ CreateUserProcess
  \/ ProcessManagementStart

BootSpec == BootInit /\ [][BootNext]_vars

\* the warning was sent
Warned ==
  \E i \in DOMAIN kernel_main_frame.uart :
     kernel_main_frame.uart[i] = "WARNING: Boot info invalid or missing"

\* C29: when the boot record is missing or its magic is not 0x424F4F54, the
\* kernel halts after the warning: ram_size is never loaded from the record,
\* and the heap, the tensor pool, the interrupt plane, the timer and the
\* scheduler stay as they were at entry
C29_HaltsOnBadMagic ==
  (~BootInfoVerified /\ kernel_main_frame.pc # "kernel_main") =>
     /\ Warned
     /\ kernel_main_frame.pc \in {"memory_system_init", "halt"}
     /\ kernel_main_frame.ram_size_loads = <<>>
     /\ heap_total = 0
     /\ ai_mem_pool = ZeroPool
     /\ ~interrupt_initialized
     /\ ~timer.initialized
     /\ ~scheduler_running
     /\ next_task_id = 0

(***************************************************************************)
(* The task list: task_new and task_free in any order, and task_switch to  *)
(* give a task the CPU                                                     *)
(***************************************************************************)
\* a valid priority each, and one that task_new refuses
TaskPriorities ==
  {TASK_PRIORITY_LOW, TASK_PRIORITY_NORMAL, TASK_PRIORITY_HIGH,
   TASK_PRIORITY_HIGH + 1}

TaskNewCall(task_priority) ==
  /\ ~mem_corrupt
  /\ Cardinality(DOMAIN tasks) < MaxRingTasks
  /\ next_task_id < MaxTaskIds
  /\ Install(task_new(Machine, task_priority), FALSE)

TaskFreeCall(task) ==
  /\ ~mem_corrupt
  /\ Install(task_free(Machine, task), FALSE)

\* the owner of a new task gives it a stack pointer and an entry point
TaskSetRegisters(task) ==
  /\ ~mem_corrupt
  /\ tasks[task].sp = 0
  /\ tasks' = [tasks EXCEPT ![task].sp = HeapBase, ![task].pc = HeapBase,
                            ![task].state = TASK_STATE_READY]
  /\ UNCHANGED <<heapVars, clientVars, task_list_head, current_task,
                 next_task_id, procs, process_table, current_process,
                 scheduler_running, mem_corrupt, starve, extVars>>

TaskSwitchCall(task) ==
  /\ ~mem_corrupt
  /\ Install(task_switch(Machine, task), FALSE)

TaskNext ==
  \/ \E task_priority \in TaskPriorities : TaskNewCall(task_priority)
  \/ \E task \in (DOMAIN tasks) \cup {NULL} : TaskFreeCall(task)
  \/ \E task \in DOMAIN tasks : TaskSetRegisters(task)
  \/ \E task \in (DOMAIN tasks) \cup {NULL} : TaskSwitchCall(task)

TaskSpec == Init /\ [][TaskNext]_vars

\* the tasks met from the tasks of S in at most n steps along next
RECURSIVE NextClosure(_, _)
NextClosure(S, n) ==
  IF n = 0 THEN S
  ELSE NextClosure(S \cup {tasks[t].next : t \in S \cap DOMAIN tasks}, n - 1)

RingWellFormed ==
  /\ (task_list_head = NULL) <=> (DOMAIN tasks = {})
  /\ task_list_head # NULL =>
       /\ task_list_head \in DOMAIN tasks
       /\ NextClosure({task_list_head}, Cardinality(DOMAIN tasks)) = DOMAIN tasks
  /\ \A t \in DOMAIN tasks :
       /\ tasks[t].next \in DOMAIN tasks
       /\ tasks[t].prev \in DOMAIN tasks
       /\ tasks[tasks[t].next].prev = t
       /\ tasks[tasks[t].prev].next = t

\* a task_new that returned a task put it between the old tail and the head
NewAtTail ==
  \A task_priority \in TaskPriorities :
     TaskNewCall(task_priority) =>
       \A t \in (DOMAIN tasks') \ (DOMAIN tasks) :
          IF task_list_head = NULL
          THEN /\ task_list_head' = t
               /\ tasks'[t].next = t
               /\ tasks'[t].prev = t
          ELSE /\ task_list_head' = task_list_head
               /\ tasks'[task_list_head].prev = t
               /\ tasks'[t].next = task_list_head
               /\ tasks'[t].prev = tasks[task_list_head].prev
               /\ tasks'[tasks[task_list_head].prev].next = t
               /\ \A u \in DOMAIN tasks :
                    /\ u # task_list_head => tasks'[u].prev = tasks[u].prev
                    /\ u # tasks[task_list_head].prev =>
                         tasks'[u].next = tasks[u].next

\* task_free of a task takes it, and only it, out of the ring; freeing the
\* current task leaves no current task
FreeUnlinks ==
  \A task \in DOMAIN tasks :
     TaskFreeCall(task) =>
       /\ DOMAIN tasks' = (DOMAIN tasks) \ {task}
       /\ current_task' = IF current_task = task THEN NULL ELSE current_task
       /\ task_list_head' =
            IF task_list_head # task THEN task_list_head
            ELSE IF tasks[task].next = task THEN NULL ELSE tasks[task].next

\* C30: after any sequence of task_new and task_free the task list is one
\* well-formed ring: the head is NULL exactly when there is no task, every
\* task is reached from the head, next and prev are inverse of each other,
\* a new task is inserted at head.prev, and freeing the current task sets
\* current_task to NULL
C30_TaskRing ==
  /\ []RingWellFormed
  /\ [][NewAtTail /\ FreeUnlinks]_vars

\* three tasks are linked after the first head and the task that had the
\* CPU were freed
C30_Witness ==
  /\ Cardinality(DOMAIN tasks) = MaxRingTasks
  /\ next_task_id = MaxTaskIds
  /\ tasks[task_list_head].id > 0
  /\ current_task = NULL
  /\ \E t \in DOMAIN tasks : tasks[t].sp # 0

(***************************************************************************)
(* The current process and the current task                                *)
(***************************************************************************)
\* C31: whenever a task is executing, process_current() is the process that
\* owns task_current(): the current-process index and the current task agree
\* after the timer tick, process_switch, and the task_schedule reached from
\* task_block, task_return or PROCESS_EXIT
C31_CurrentAgree ==
  (current_task # NULL /\ tasks[current_task].state = TASK_STATE_RUNNING) =>
     /\ process_current(Machine) # NULL
     /\ procs[process_current(Machine)].task = current_task

(***************************************************************************)
(* process_set_arguments on a heap that is short of memory                 *)
(***************************************************************************)
\* argument vectors of 0 to MaxArgvLen strings of one character
ArgVectors == UNION {[1..n -> {Bytes(2)}] : n \in 0..MaxArgvLen}

\* what the kernel asks of kmalloc: sizes that leave, beside one process,
\* no block or as many blocks as a vector with none or one of its strings
\* takes
ArgsFillSizes ==
  {[q |-> KHeapTotal - ProcessBlocks - left, r |-> 0] : left \in 0..MaxArgvLen}

ProcessSetArgumentsCall(id, lens) ==
  /\ heap_oob = {}
  /\ ProcessSetArguments(id, lens)

\* one process is created
ArgsProcessCreate(size) ==
  /\ next_task_id = 0
  /\ ProcessCreateCall(size)

ArgsNext ==
  \/ \E size \in ArgsFillSizes : KernelFill(size)
  \/ \E s \in 1..MaxAllocs : KernelRelease(s)
  \/ \E size \in ProgramSizes : ArgsProcessCreate(size)
  \/ \E id \in Occupied(Machine), lens \in ArgVectors :
        ProcessSetArgumentsCall(id, lens)

ArgsSpec == Init /\ [][ArgsNext]_vars

\* C32: when process_set_arguments fails with NO_MEMORY, the strings copied
\* so far and the vector are back in the heap (the block map is the one
\* without the process's arguments) and no kfree was given a null pointer;
\* when it succeeds, process_get_arguments returns the argc it was given and
\* one string per input, each in a block of its own that the heap handed
\* out for it
C32_SetArgumentsUnwinds ==
  [][\A id \in Pids, lens \in ArgVectors :
       ProcessSetArgumentsCall(id, lens) =>
         LET r == process_set_arguments(Machine, process_table[id], lens)
             base == FreeArguments(Machine, process_table[id])
             g == process_get_arguments(r.m, id)
         IN /\ r.ret \in {EOK, -ENOMEM}
            /\ r.ret = -ENOMEM =>
                 /\ entries' = base.entries
                 /\ ~mem_corrupt'
            /\ r.ret = EOK =>
                 /\ g.ret = EOK
                 /\ g.argc = Len(lens)
                 /\ Len(g.strings) = Len(lens)
                 /\ \A i \in 1..Len(lens) :
                      /\ g.strings[i] # NULL
                      /\ base.entries[BlockOf(g.strings[i])]
                           = HEAP_BLOCK_TABLE_ENTRY_FREE
                      /\ entries'[BlockOf(g.strings[i])]
                           # HEAP_BLOCK_TABLE_ENTRY_FREE
                      /\ \A j \in 1..Len(lens) :
                           j # i => g.strings[j] # g.strings[i]]_vars

(***************************************************************************)
(* The interrupt and timer interfaces called in any order, before and      *)
(* after interrupt_init and timer_init                                     *)
(***************************************************************************)
InterruptDisable(num) ==
  HwCall(interrupt_disable(Hw, num), "interrupt_disable", num, NoHandler)

InterruptEnableAll ==
  HwCall(interrupt_enable_all(Hw), "interrupt_enable_all", 0, NoHandler)

InterruptDisableAll ==
  HwCall(interrupt_disable_all(Hw), "interrupt_disable_all", 0, NoHandler)

TimerInit == HwCall(timer_init(Hw), "timer_init", 0, NoHandler)

TimerRegisterHandler(handler) ==
  HwCall(timer_register_handler(Hw, handler), "timer_register_handler", 0,
         handler)

TimerSetInterval(ms) ==
  HwCall(timer_set_interval(Hw, ms), "timer_set_interval", ms, NoHandler)

TimerEnable == HwCall(timer_enable(Hw), "timer_enable", 0, NoHandler)

TimerDisable == HwCall(timer_disable(Hw), "timer_disable", 0, NoHandler)

\* the IRQ vector calls irq_handler, whatever made the CPU take the
\* exception; no task exists, so no handler leaves through a task switch
IrqDispatch(iar) ==
  /\ ~mem_corrupt
  /\ \E r \in {irq_handler(Machine, Hw, iar)} :
       /\ InstallMachine(r, FALSE)
       /\ gic_active' = IF /\ interrupt_initialized
                           /\ iar % GICC_IAR_ID_MOD < GIC_SPECIAL_ID
                           /\ r.eoir = <<>>
                        THEN gic_active \cup {iar} ELSE gic_active
       /\ irq_result' = IrqCall("irq_handler", iar, NoHandler, r.ret, r.eoir)
  /\ UNCHANGED <<interrupt_initialized, interrupt_handlers, timer, gicd_enabled,
                 daif_i, extButIrq>>

\* timer handlers and intervals: none and one each
TimerHandlerArgs == {NoHandler, "scheduler_timer_handler"}
IntervalArgs == {0, SCHEDULER_TICKS_MS}

\* a call of the interrupt interface other than interrupt_init
InterruptCall ==
  \/ \E num \in IrqNumArgs, handler \in HandlerArgs : InterruptRegister(num, handler)
  \/ \E num \in IrqNumArgs : InterruptUnregister(num)
  \/ \E num \in IrqNumArgs : InterruptEnable(num)
  \/ \E num \in IrqNumArgs : InterruptDisable(num)
  \/ InterruptEnableAll
  \/ InterruptDisableAll
  \/ \E iar \in IarValues : IrqDispatch(iar)

\* a call of the timer interface other than timer_init
TimerCall ==
  \/ \E handler \in TimerHandlerArgs : TimerRegisterHandler(handler)
  \/ \E ms \in IntervalArgs : TimerSetInterval(ms)
  \/ TimerEnable
  \/ TimerDisable

NotReadyNext ==
  \/ InterruptInit
  \/ TimerInit
  \/ InterruptCall
  \/ TimerCall

NotReadySpec == Init /\ [][NotReadyNext]_vars

\* C33: before interrupt_init has completed, every call of the interrupt
\* interface and the IRQ dispatch return NOT_READY and change neither the
\* handler table nor a GIC register; before timer_init has completed, the
\* calls of the timer interface return NOT_READY and change nothing; and
\* timer_init fails, and leaves the timer uninitialised, if the interrupt
\* controller is not initialised
C33_NotReadyBeforeInit ==
  [][/\ (InterruptCall /\ ~interrupt_initialized) =>
          /\ irq_result'.ret = -ENOTREADY
          /\ irq_result'.eoir = <<>>
          /\ UNCHANGED <<interrupt_initialized, interrupt_handlers,
                         gicd_enabled, gic_active, daif_i, timer>>
     /\ (TimerCall /\ ~timer.initialized) =>
          /\ irq_result'.ret = -ENOTREADY
          /\ UNCHANGED <<interrupt_initialized, interrupt_handlers,
                         gicd_enabled, gic_active, daif_i, timer>>
     /\ (TimerInit /\ ~interrupt_initialized) =>
          /\ irq_result'.ret < 0
          /\ UNCHANGED <<interrupt_initialized, interrupt_handlers,
                         gicd_enabled, gic_active, daif_i, timer>>]_vars

\* timer_enable has returned NOT_READY after interrupt_init, with an
\* interrupt enabled in the distributor and a handler in the table
C33_Witness ==
  /\ irq_result.op = "timer_enable"
  /\ irq_result.ret = -ENOTREADY
  /\ interrupt_initialized
  /\ ~timer.initialized
  /\ gicd_enabled # {}
  /\ interrupt_handlers[TIMER_IRQ + 1] # NoHandler

(***************************************************************************)
(* The flags of a mapped page read and changed                             *)
(***************************************************************************)
MemoryTypeFlags == {MAP_DEVICE, MAP_CACHE_WB, MAP_CACHE_WT, MAP_CACHE_NC}
\* the flag sets with exactly one memory-type flag
OneTypeFlags ==
  {f \in AllMapFlags :
     Cardinality({t \in MemoryTypeFlags : HasFlag(f, t)}) = 1}
\* the flag sets the calls are given: readable and not shared, with every
\* combination of WRITE, USER, EXEC and one memory type
FlagsArgs ==
  {f \in OneTypeFlags : HasFlag(f, MAP_READ) /\ ~HasFlag(f, MAP_SHARED)}
\* the page that is mapped, and one that is not
FlagsVirtArgs == {Addr(FALSE, 1, 0), Addr(FALSE, 2, 0)}

KernelMmuSetFlags(virt_addr, flags, load) ==
  /\ kernel_pgd # NULL
  /\ \E r \in {kernel_mmu_set_flags(MmuState, kernel_pgd, virt_addr, flags,
                                    load)} :
       /\ entries' = r.st.entries
       /\ pt_mem' = r.st.pt_mem
       /\ mmu_calls' = [mmu_calls EXCEPT !.set_flags =
                          [called |-> TRUE, aborted |-> r.aborted,
                           ret |-> r.ret]]
  /\ UNCHANGED <<heap_total, heap_oob, clientVars, kernelVars, kernel_pgd,
                 extButMmu>>

KernelMmuGetFlags(virt_addr, load) ==
  /\ kernel_pgd # NULL
  /\ \E r \in {kernel_mmu_get_flags(pt_mem, kernel_pgd, virt_addr, load)} :
       mmu_calls' = [mmu_calls EXCEPT !.get_flags =
                       [called |-> TRUE, aborted |-> r.aborted, ret |-> r.ret,
                        flags |-> r.flags]]
  /\ UNCHANGED <<heapVars, clientVars, kernelVars, kernel_pgd, pt_mem,
                 extButMmu>>

FlagsNext ==
  \/ KernelMmuInit
  \/ \E f \in FlagsArgs :
       KernelMmuMap(Addr(FALSE, 16, 0), Addr(FALSE, 1, 0), 1, f)
  \/ \E v \in FlagsVirtArgs, f \in FlagsArgs, load \in HighLoads :
       KernelMmuSetFlags(v, f, load)
  \/ \E v \in FlagsVirtArgs, load \in HighLoads : KernelMmuGetFlags(v, load)

FlagsSpec == Init /\ [][FlagsNext]_vars

\* the WRITE, USER, EXEC and memory-type bits of a flag set
AttributeBits(f) ==
  {b \in {MAP_WRITE, MAP_USER, MAP_EXEC} \cup MemoryTypeFlags : HasFlag(f, b)}

MapAttrs == {MEMORY_ATTR_NORMAL_WB * 4}
MapSizes == {PAGE_SIZE, LARGE_PAGE_SIZE}
MapVirtArgs ==
  {Va(PHYS_RAM_START, 0), Va(PHYS_RAM_START + 1, 0), Va(PHYS_RAM_START, 8),
   Va(2 * PAGES_PER_GB, 0)}
MapPhysArgs ==
  {Va(PHYS_RAM_START + (4 * PAGES_PER_BLOCK), 0),
   Va(PHYS_RAM_START + (4 * PAGES_PER_BLOCK), 8)}
\* the pages whose translation is observed
RefPages ==
  {PHYS_RAM_START, PHYS_RAM_START + 1, PHYS_RAM_START + PAGES_PER_BLOCK - 1,
   PHYS_RAM_START + PAGES_PER_BLOCK}

\* the boot path calls mmu_init once, on the tables the loader zeroed
MmuInit ==
  /\ mmu_tables.level1_table = ZeroTables.level1_table
  /\ mmu_tables' = mmu_init(mmu_tables)
  /\ mmu_result' = [NoPagingCall EXCEPT !.name = "mmu_init"]
  /\ UNCHANGED <<heapVars, clientVars, kernelVars, extButPaging>>

MmuMap(vaddr, paddr, size, attrs) ==
  /\ \E r \in {mmu_map(mmu_tables, vaddr, paddr, size, attrs)} :
       /\ ~r.cut
       /\ mmu_tables' = r.T
       /\ mmu_result' = [name |-> "mmu_map", ret |-> r.ret]
  /\ UNCHANGED <<heapVars, clientVars, kernelVars, extButPaging>>

MmuUnmap(vaddr, size) ==
  /\ \E r \in {mmu_unmap(mmu_tables, vaddr, size)} :
       /\ ~r.cut
       /\ mmu_tables' = r.T
       /\ mmu_result' = [name |-> "mmu_unmap", ret |-> r.ret]
  /\ UNCHANGED <<heapVars, clientVars, kernelVars, extButPaging>>

PagingNext ==
  \/ MmuInit
  \/ \E vaddr \in MapVirtArgs, paddr \in MapPhysArgs, size \in MapSizes,
        attrs \in MapAttrs : MmuMap(vaddr, paddr, size, attrs)
  \/ \E vaddr \in MapVirtArgs, size \in MapSizes : MmuUnmap(vaddr, size)

PagingSpec == Init /\ [][PagingNext]_vars

\* page lies in the size bytes from vaddr
Covers(page, vaddr, size) ==
  page >= vaddr.page /\ (page - vaddr.page) * PAGE_SIZE < size

\* C35: mmu_virt_to_phys answers as a translation that maps and unmaps 4 KiB
\* pages only would: after an mmu_map that returned EOK every page of the
\* range translates to its place in the physical range and every other page
\* as before, and after an mmu_unmap that returned EOK every page of the
\* range reports unmapped (0) and every other page translates as before;
\* so a single page unmapped inside a 2 MiB block reports unmapped.
C35_BlocksUnobservable ==
  [][/\ \A vaddr \in MapVirtArgs, paddr \in MapPhysArgs, size \in MapSizes,
           attrs \in MapAttrs :
          (MmuMap(vaddr, paddr, size, attrs) /\ mmu_result'.ret = EOK) =>
            \A p \in RefPages :
              mmu_virt_to_phys(mmu_tables', Va(p, 0)) =
                IF Covers(p, vaddr, size)
                THEN Va(paddr.page + (p - vaddr.page), 0)
                ELSE mmu_virt_to_phys(mmu_tables, Va(p, 0))
     /\ \A vaddr \in MapVirtArgs, size \in MapSizes :
          (MmuUnmap(vaddr, size) /\ mmu_result'.ret = EOK) =>
            \A p \in RefPages :
              mmu_virt_to_phys(mmu_tables', Va(p, 0)) =
                IF Covers(p, vaddr, size)
                THEN Va(0, 0)
                ELSE mmu_virt_to_phys(mmu_tables, Va(p, 0))]_vars

(***************************************************************************)
(* The SVC path: kheap_init places the heap after the end of the kernel    *)
(* image, syscall_init registers syscall_handler, and the running process  *)
(* traps with PROCESS_MALLOC, PROCESS_EXIT or a number past the table.     *)
(***************************************************************************)
\* heap_start_addr: the default, 0x7FFFF000 (the second block has bit 31
\* set), 0x80000000 and 0x100000000
HeapStartAddrs ==
  {WordOf(HeapBase),
   [w3 |-> 0, w2 |-> 0, w1 |-> 32767, w0 |-> 61440],
   [w3 |-> 0, w2 |-> 0, w1 |-> 32768, w0 |-> 0],
   [w3 |-> 0, w2 |-> 1, w1 |-> 0, w0 |-> 0]}
SvcNums == {SYSCALL_PROCESS_EXIT, SYSCALL_PROCESS_MALLOC, SYSCALL_MAX}
SvcArgs == {0, KERNEL_HEAP_BLOCK_SIZE + 1}

\* kheap_init: heap_start_addr follows from &_end, before anything is
\* allocated
KheapInitAt(heap_start_addr) ==
  /\ next_task_id = 0
  /\ heap_saddr = WordOf(HeapBase)
  /\ heap_saddr' = heap_start_addr
  /\ UNCHANGED <<heapVars, clientVars, kernelVars, syscallVars, svc_frame,
                 extButSvc>>

SvcSyscallInit ==
  /\ syscall_table' = syscall_init(syscall_table)
  /\ UNCHANGED <<heapVars, clientVars, kernelVars, syscall_result, svcVars,
                 extButSvc>>

SvcCHandler(svc_num, arg1) ==
  /\ ~mem_corrupt
  /\ current_task # NULL
  /\ (svc_num = SYSCALL_PROCESS_MALLOC /\ process_current(Machine) # NULL)
       => Cardinality(UserRecords(process_current(Machine))) < MaxUserAllocs
  /\ \E r \in {svc_c_handler(Machine, syscall_table, heap_saddr, svc_num,
                             arg1)} :
       /\ InstallMachine(r, FALSE)
       /\ svc_frame' = [called |-> r.called, result |-> r.ret, x0 |-> r.x0]
  /\ UNCHANGED <<syscallVars, heap_saddr, extButSvc>>

SvcNext ==
  \/ \E heap_start_addr \in HeapStartAddrs : KheapInitAt(heap_start_addr)
  \/ SvcSyscallInit
  \/ \E size \in ProgramSizes : BootProcessCreate(size)
  \/ SchedulerStart
  \/ \E id \in PidArgs : ProcessSwitch(id)
  \/ \E svc_num \in SvcNums, arg1 \in SvcArgs : SvcCHandler(svc_num, arg1)

SvcSpec == Init /\ [][SvcNext]_vars

\* the pointers in the allocation table of process, in the process objects ps
AllocationPtrs(ps, process) ==
  {ps[process].allocations[i].ptr : i \in DOMAIN ps[process].allocations}
  \ {NULL}

\* C36: after a PROCESS_MALLOC trap, x0 of the interrupt frame is the 64-bit
\* address of the pointer the call recorded in the allocation table of the
\* current process, and 0 when it recorded none, wherever the heap lies.
C36_MallocX0IsPointer ==
  [][\A arg1 \in SvcArgs :
       (SvcCHandler(SYSCALL_PROCESS_MALLOC, arg1)
          /\ svc_frame'.called = "syscall_process_malloc") =>
         \E current \in {process_current(Machine)} :
           IF current = NULL THEN svc_frame'.x0 = ZeroWord
           ELSE \E recorded \in {AllocationPtrs(procs', current)
                                   \ AllocationPtrs(procs, current)} :
                  /\ Cardinality(recorded) <= 1
                  /\ recorded = {} => svc_frame'.x0 = ZeroWord
                  /\ \A ptr \in recorded :
                       svc_frame'.x0 = AddressOf(heap_saddr, ptr)]_vars

\* C37: task_new(p) with p one of LOW, NORMAL and HIGH makes (when the heap
\* has room for it) one new task, in state NEW, with priority p and an id
\* greater than the id of every task made before it; with any other p it
\* makes no task and leaves the ring as it was.
C37_TaskNewFields ==
  [][\A task_priority \in TaskPriorities :
       TaskNewCall(task_priority) =>
         IF task_priority \in {TASK_PRIORITY_LOW, TASK_PRIORITY_NORMAL,
                               TASK_PRIORITY_HIGH}
         THEN /\ k_kmalloc(Machine, Bytes(SIZEOF_TASK)).ret # NULL =>
                   Cardinality((DOMAIN tasks') \ (DOMAIN tasks)) = 1
              /\ \A t \in (DOMAIN tasks') \ (DOMAIN tasks) :
                   /\ tasks'[t].state = TASK_STATE_NEW
                   /\ tasks'[t].priority = task_priority
                   /\ tasks'[t].id >= next_task_id
                   /\ \A u \in DOMAIN tasks : tasks'[t].id > tasks[u].id
         ELSE UNCHANGED <<tasks, task_list_head, next_task_id>>]_vars

(***************************************************************************)
(* The indices of process_table: processes are created (and switched to),  *)
(* terminated and switched between, by calls and by the timer tick; the    *)
(* running task blocks or exits.                                           *)
(***************************************************************************)
process_create_switch(m, size) ==
  Only({IF c.ret < 0 THEN Res(c.m, c.ret)
        ELSE Res(process_switch(c.m, c.ret).m, EOK) :
          c \in {process_create(m, size)}})

\* the indices at which process_switch(id) reads process_table: id, unless
\* id >= SYNAPSE_MAX_PROCESSES ends the test, and then current_process
ProcessSwitchIndices(m, id) ==
  IF id >= SYNAPSE_MAX_PROCESSES THEN {}
  ELSE IF m.process_table[id] = NULL THEN {id}
  ELSE {id, m.current_process}

\* the indices at which the process_switch of scheduler_timer_handler reads
\* process_table
TimerHandlerIndices(m) ==
  IF ~m.scheduler_running THEN {}
  ELSE
    Only({ProcessSwitchIndices(m1, task_schedule_next_process(m1)) :
            m1 \in {IF m.current_task # NULL
                       /\ m.tasks[m.current_task].state = TASK_STATE_RUNNING
                    THEN [m EXCEPT !.tasks[m.current_task].state =
                                      TASK_STATE_READY]
                    ELSE m}})

\* the indices at which the process_switch of process_create_switch reads
\* process_table
CreateSwitchIndices(m, size) ==
  Only({IF c.ret < 0 THEN {} ELSE ProcessSwitchIndices(c.m, c.ret) :
          c \in {process_create(m, size)}})

ProcessCreateSwitch(size) ==
  /\ ~mem_corrupt
  /\ next_task_id < MaxTasks
  /\ Install(process_create_switch(Machine, size), FALSE)

SwitchNext ==
  \/ \E size \in ProgramSizes : ProcessCreate(size)
  \/ \E size \in ProgramSizes : ProcessCreateSwitch(size)
  \/ SchedulerStart
  \/ TimerTick
  \/ \E id \in PidArgs : ProcessSwitch(id)
  \/ \E id \in PidArgs : ProcessTerminate(id)
  \/ TaskBlock
  \/ \E task \in DOMAIN tasks : TaskUnblock(task)
  \/ SyscallProcessExit

SwitchSpec == Init /\ [][SwitchNext]_vars

\* C38: process_switch reads process_table only at indices in
\* [0, SYNAPSE_MAX_PROCESSES), when it is called directly, by the tick
\* handler or by process_create_switch, also after the current process was
\* terminated.
C38_TableIndexInRange ==
  [][/\ \A id \in PidArgs :
          ProcessSwitch(id) =>
            ProcessSwitchIndices(Machine, id)
              \subseteq 0..(SYNAPSE_MAX_PROCESSES - 1)
     /\ TimerTick =>
          TimerHandlerIndices(Machine)
            \subseteq 0..(SYNAPSE_MAX_PROCESSES - 1)
     /\ \A size \in ProgramSizes :
          ProcessCreateSwitch(size) =>
            CreateSwitchIndices(Machine, size)
              \subseteq 0..(SYNAPSE_MAX_PROCESSES - 1)]_vars

(***************************************************************************)
(* IRQ dispatch with any interrupt id: the GIC of the platform signals ids *)
(* up to 1019, and the table has MAX_INTERRUPT_HANDLERS entries.           *)
(***************************************************************************)
\* what the load of interrupt_handlers[interrupt_id] gives for an id past the
\* table: NULL, or a value that is not NULL, and then the call through it
\* returns or is lost
PastTableLoads == {"null", "returns", "lost"}

\* irq_handler for every value of GICC_IAR; load is the outcome of the load
\* past the table. mem_corrupt: the load went outside interrupt_handlers.
\* called: the pointer the handler was called through.
IrqHandlerAnyId(m, hw, iar, load) ==
  IF ~hw.interrupt_initialized
       \/ iar % GICC_IAR_ID_MOD >= GIC_SPECIAL_ID
       \/ iar % GICC_IAR_ID_MOD < MAX_INTERRUPT_HANDLERS
  THEN Only({[m |-> r.m, ret |-> r.ret, eoir |-> r.eoir,
              called |-> IF /\ hw.interrupt_initialized
                            /\ iar % GICC_IAR_ID_MOD < MAX_INTERRUPT_HANDLERS
                         THEN hw.interrupt_handlers[iar % GICC_IAR_ID_MOD]
                         ELSE NoHandler] :
               r \in {irq_handler(m, hw, iar)}})
  ELSE [m |-> [m EXCEPT !.mem_corrupt = TRUE],
        ret |-> EOK,
        eoir |-> IF load = "lost" THEN <<>> ELSE <<iar>>,
        called |-> IF load = "null" THEN NoHandler ELSE "past_the_table"]

\* ids of the timer, of a device, past the table (128 and 1019, and 128 with
\* a CPU id in bits 10..12) and a special id
AnyIarValues ==
  {TIMER_IRQ, TIMER_IRQ + 1, MAX_INTERRUPT_HANDLERS, GIC_SPECIAL_ID - 1,
   GICC_IAR_ID_MOD + MAX_INTERRUPT_HANDLERS, GICC_IAR_ID_MOD - 1}

IrqAnyId(iar, load) ==
  /\ ~mem_corrupt
  /\ \E r \in {IrqHandlerAnyId(Machine, Hw, iar, load)} :
       /\ InstallMachine(r, FALSE)
       /\ gic_active' = IF /\ interrupt_initialized
                           /\ iar % GICC_IAR_ID_MOD < GIC_SPECIAL_ID
                           /\ r.eoir = <<>>
                        THEN gic_active \cup {iar} ELSE gic_active
       /\ irq_result' = IrqCall("irq_handler", iar, r.called, r.ret, r.eoir)
  /\ UNCHANGED <<interrupt_initialized, interrupt_handlers, timer, gicd_enabled,
                 daif_i, extButIrq>>

AnyIdNext ==
  \/ InterruptInit
  \/ InterruptRegister(TIMER_IRQ + 1, "other_handler")
  \/ InterruptEnable(TIMER_IRQ + 1)
  \/ SchedulerInit
  \/ \E size \in ProgramSizes : ProcessCreate(size)
  \/ \E id \in Occupied(Machine) : ProcessTerminate(id)
  \/ SchedulerStartCall
  \/ \E iar \in AnyIarValues, load \in PastTableLoads : IrqAnyId(iar, load)

AnyIdSpec == Init /\ [][AnyIdNext]_vars

\* C39: for every value of GICC_IAR whose low 10 bits are in [128, 1020),
\* irq_handler makes no load outside interrupt_handlers, calls no handler
\* and writes the value to GICC_EOIR.
C39_DispatchInsideTable ==
  [][\A iar \in AnyIarValues, load \in PastTableLoads :
       (/\ IrqAnyId(iar, load)
        /\ interrupt_initialized
        /\ iar % GICC_IAR_ID_MOD >= MAX_INTERRUPT_HANDLERS
        /\ iar % GICC_IAR_ID_MOD < GIC_SPECIAL_ID) =>
          /\ ~mem_corrupt'
          /\ irq_result'.handler = NoHandler
          /\ irq_result'.eoir = <<iar>>]_vars

\* the bytes of the regions ai_memory_alloc handed out and ai_memory_free has
\* not taken back; every allocation adds at least the bytes of its region
RECURSIVE HandedOutBytes(_, _)
HandedOutBytes(handed, ptrs) ==
  IF ptrs = {} THEN 0
  ELSE Only({handed[p] + HandedOutBytes(handed, ptrs \ {p}) :
               p \in {CHOOSE q \in ptrs : TRUE}})

\* C40: used_size never goes below zero and never exceeds peak_usage, and it
\* is the sum of what the allocations of the regions still handed out added:
\* at least the bytes of those regions, and zero when none is handed out
C40_UsedSizeIsHandedOutSum ==
  /\ ai_mem_pool.used_size >= 0
  /\ ai_mem_pool.used_size <= ai_mem_pool.peak_usage
  /\ ai_mem_pool.used_size >= HandedOutBytes(ai_handed, DOMAIN ai_handed)
  /\ (DOMAIN ai_handed = {}) => (ai_mem_pool.used_size = 0)

====
